---- MODULE Spec2Model ----
(***************************************************************************)
(* Verification model of two numerical components of sPHENIX coresoftware: *)
(*   - TpcClusterMover  (offline/packages/tpc/TpcClusterMover.{h,cc})      *)
(*   - CylinderGeom_Mvtx (offline/packages/mvtx/CylinderGeom_Mvtx.{h,cc})  *)
(*                                                                         *)
(* Numbers.  TLC has no floating point, so every length is a fixed-point   *)
(* integer.  TPC lengths are counted in units of 1/80 cm, the coarsest unit  *)
(* in which every default layer radius is an integer.  MVTX                *)
(* lengths are counted in nanometres (1 cm = 10^7 nm), in which the pixel  *)
(* pitches, the edge tolerance and the sensor-to-chip offset are integers. *)
(* Divisions and square roots round down; rounding of the IEEE doubles of  *)
(* the program is not modelled.                                            *)
(***************************************************************************)
EXTENDS Integers, Sequences, FiniteSets, TLC

VARIABLES
    layer_radius,   \* TpcClusterMover::layer_radius[48]
    verbosity,      \* TpcClusterMover::_verbosity
    scratch,        \* TpcClusterMover::_x_start .. _z_proj (six scratch members)
    pc,             \* "idle": no call result held; "returned": processTrack returned
    global_in,      \* argument of the last processTrack call
    fit,            \* what TrackFitUtils fitted for that call (circle and line)
    global_moved,   \* value returned by the last processTrack call
    cellgeo,        \* radii of the last container given to initialize_geometry
    overrun,        \* radii initialize_geometry wrote behind the end of layer_radius
    ncalls,         \* number of processTrack calls made on the instance
    scratch_in,     \* what the scratch members held when the last call began
    thr,            \* the processTrack calls that run side by side, one per thread
    calls,          \* the processTrack calls made: verbosity, arguments, result, lines printed
    mvtx,           \* last CylinderGeom_Mvtx call: operation, arguments, result
    geom,           \* the data members of the CylinderGeom_Mvtx object
    ptrig,          \* the data members of a HepMCParticleTrigger
    ptrig_call,     \* its process_event calls: the last one and the count of EVENT_OK
    jtrig,          \* the data members of a HepMCJetTrigger
    jtrig_call,     \* its process_event calls: the last one and the count of EVENT_OK
    ifh,            \* the data members of an InputFileHandler
    ifh_call,       \* the OpenNextFile call in progress or returned, the files opened
    cpruner,        \* the data members of a MvtxClusterPruner
    trkrclusters,   \* TRKR_CLUSTER with TRKR_CLUSTERHITASSOC: cluster key -> hit keys
    cpruner_call,   \* the last MvtxClusterPruner::process_event: container before, removals
    m_hits,         \* TRKR_HITSET: hitset key -> (hit key -> hit)
    hpruner_call,   \* the last MvtxHitPruner::process_event: container before, return code
    qa,             \* the data members of a StateClusterResidualsQA
    qa_call         \* the last StateClusterResidualsQA::process_event: its track map

tpcvars == <<layer_radius, verbosity, scratch, pc, global_in, fit, global_moved,
            cellgeo, overrun, ncalls, scratch_in, calls, thr>>
mvtxvars == <<mvtx, geom>>
ptrigvars == <<ptrig, ptrig_call>>
jtrigvars == <<jtrig, jtrig_call>>
ifhvars == <<ifh, ifh_call>>
cprunervars == <<cpruner, trkrclusters, cpruner_call>>
hprunervars == <<m_hits, hpruner_call>>
qavars == <<qa, qa_call>>
\* the objects outside the tracking geometry code
othervars == <<ptrigvars, jtrigvars, ifhvars, cprunervars, hprunervars, qavars>>
vars == <<layer_radius, verbosity, scratch, pc, global_in, fit, global_moved,
         cellgeo, overrun, ncalls, scratch_in, calls, thr, mvtx, geom, othervars>>

\* An object that no step of a specification uses is not constructed in it.
NoTracking ==
    /\ layer_radius = <<>> /\ verbosity = 0 /\ scratch = <<>> /\ pc = "idle"
    /\ global_in = <<>> /\ fit = <<>> /\ global_moved = <<>> /\ cellgeo = <<>>
    /\ overrun = <<>> /\ ncalls = 0 /\ scratch_in = <<>> /\ calls = {} /\ thr = <<>>
    /\ mvtx = <<>> /\ geom = <<>>
NoPTrig == ptrig = <<>> /\ ptrig_call = <<>>
NoJTrig == jtrig = <<>> /\ jtrig_call = <<>>
NoIfh == ifh = <<>> /\ ifh_call = <<>>
NoCPruner == cpruner = <<>> /\ trkrclusters = <<>> /\ cpruner_call = <<>>
NoHPruner == m_hits = <<>> /\ hpruner_call = <<>>
NoQA == qa = <<>> /\ qa_call = <<>>
NoOthers == NoPTrig /\ NoJTrig /\ NoIfh /\ NoCPruner /\ NoHPruner /\ NoQA

(***************************************************************************)
(* Bounds of the model.                                                    *)
(***************************************************************************)
MaxHits == 5          \* longest hit list handed to processTrack

(***************************************************************************)
(* Arithmetic helpers.                                                     *)
(***************************************************************************)
Abs(x) == IF x < 0 THEN -x ELSE x

square(x) == x * x

RECURSIVE SqrtSearch(_, _, _)
SqrtSearch(n, lo, hi) ==
    \* largest s in lo..hi with s*s <= n, given lo*lo <= n < (hi+1)*(hi+1)
    IF lo = hi THEN lo
    ELSE LET mid == (lo + hi + 1) \div 2
         IN  IF mid * mid <= n THEN SqrtSearch(n, mid, hi)
                               ELSE SqrtSearch(n, lo, mid - 1)

\* 46340 is the largest integer whose square is below 2^31
sqrt(n) == SqrtSearch(n, 0, 46340)

(***************************************************************************)
(* TpcClusterMover: constants and construction.                            *)
(***************************************************************************)
NLayers == 48
LayerOffset == 7

inner_tpc_min_radius == 2400    \* 30.0 cm
mid_tpc_min_radius == 3200      \* 40.0 cm
outer_tpc_min_radius == 4800    \* 60.0 cm
outer_tpc_max_radius == 6112    \* 76.4 cm

inner_tpc_spacing == (mid_tpc_min_radius - inner_tpc_min_radius) \div 16
mid_tpc_spacing == (outer_tpc_min_radius - mid_tpc_min_radius) \div 16
outer_tpc_spacing == (outer_tpc_max_radius - outer_tpc_min_radius) \div 16

\* mutant: every radius is the lower edge of its bin
ConstructedLayerRadius_LowerEdge ==
    [i \in 0..(NLayers - 1) |->
        IF i < 16 THEN inner_tpc_min_radius + i * inner_tpc_spacing
        ELSE IF i < 32 THEN mid_tpc_min_radius + (i - 16) * mid_tpc_spacing
        ELSE outer_tpc_min_radius + (i - 32) * outer_tpc_spacing]

\* the three loops of the constructor
ConstructedLayerRadius ==
    [i \in 0..(NLayers - 1) |->
        IF i < 16 THEN inner_tpc_min_radius + i * inner_tpc_spacing + inner_tpc_spacing \div 2
        ELSE IF i < 32 THEN mid_tpc_min_radius + (i - 16) * mid_tpc_spacing + mid_tpc_spacing \div 2
        ELSE outer_tpc_min_radius + (i - 32) * outer_tpc_spacing + outer_tpc_spacing \div 2]

ZeroScratch ==
    [x_start |-> 0, y_start |-> 0, z_start |-> 0,
     x_proj |-> 0, y_proj |-> 0, z_proj |-> 0]

(***************************************************************************)
(* Cluster keys.  TrkrDefs::cluskey packs the tracker id, the layer and a  *)
(* cluster id; the model keeps the three fields apart.                     *)
(***************************************************************************)
tpcId == "tpc"

getTrkrId(ckey) == ckey.trkrId

getLayer(ckey) == ckey.layer

(***************************************************************************)
(* TrackFitUtils (trackbase, outside the sources modelled here).           *)
(*                                                                         *)
(* circle_circle_intersection(r1, r2, x2, y2): the two intersections of    *)
(* the circle of radius r1 about the origin with the circle of radius r2   *)
(* about (x2, y2).  With d = |(x2,y2)| and D = r1^2 - r2^2 + d^2 the       *)
(* common chord lies at distance a = D/(2d) from the origin and has half   *)
(* length h = sqrt(r1^2 - a^2); a negative r1^2 - a^2 (no real solution)   *)
(* or y2 = 0 (division by zero) gives NaN.  "plus" is the solution with    *)
(* the larger x, y follows from the chord equation 2*x2*x + 2*y2*y = D.    *)
(***************************************************************************)
\* A NaN result carries nan = TRUE in place of its four coordinates.
NaNResult == [nan |-> TRUE, xplus |-> 0, yplus |-> 0, xminus |-> 0, yminus |-> 0]

circle_circle_intersection(r1, r2, x2, y2) ==
    LET d2 == square(x2) + square(y2)
        d  == sqrt(d2)
        D  == square(r1) - square(r2) + d2
    IN  IF y2 = 0 \/ d = 0
        THEN NaNResult
        ELSE LET a  == D \div (2 * d)
                 h2 == square(r1) - square(a)
             IN  IF h2 < 0
                 THEN NaNResult
                 ELSE LET h  == sqrt(h2)
                          xp == (a * x2 + h * Abs(y2)) \div d
                          xm == (a * x2 - h * Abs(y2)) \div d
                      IN  [nan    |-> FALSE,
                           xplus  |-> xp,
                           yplus  |-> (D - 2 * x2 * xp) \div (2 * y2),
                           xminus |-> xm,
                           yminus |-> (D - 2 * x2 * xm) \div (2 * y2)]

\* The slope A of line_fit is a fixed-point number with LineScale units per 1.
LineScale == 8

LineAt(A, B, r) == B + (A * r) \div LineScale

(***************************************************************************)
(* TpcClusterMover::get_circle_circle_intersection.  x and y are the       *)
(* reference parameters: the record returned holds the return code and the *)
(* values x and y have when the function returns.                          *)
(***************************************************************************)
Tolerance == 400      \* 5.0 cm

\* mutant: the isnan test is missing
get_circle_circle_intersection_NoNaNCheck(target_radius, R, X0, Y0, xclus, yclus, x, y) ==
    LET c == circle_circle_intersection(target_radius, R, X0, Y0)
    IN  IF Abs(xclus - c.xplus) < Tolerance /\ Abs(yclus - c.yplus) < Tolerance
        THEN [ret |-> "EVENT_OK", x |-> c.xplus, y |-> c.yplus]
        ELSE [ret |-> "EVENT_OK", x |-> c.xminus, y |-> c.yminus]

\* mutant: || in place of && in the tolerance test
get_circle_circle_intersection_Or(target_radius, R, X0, Y0, xclus, yclus, x, y) ==
    LET c == circle_circle_intersection(target_radius, R, X0, Y0)
    IN  IF c.nan
        THEN [ret |-> "ABORTEVENT", x |-> x, y |-> y]
        ELSE IF Abs(xclus - c.xplus) < Tolerance \/ Abs(yclus - c.yplus) < Tolerance
             THEN [ret |-> "EVENT_OK", x |-> c.xplus, y |-> c.yplus]
             ELSE [ret |-> "EVENT_OK", x |-> c.xminus, y |-> c.yminus]

get_circle_circle_intersection(target_radius, R, X0, Y0, xclus, yclus, x, y) ==
    LET c == circle_circle_intersection(target_radius, R, X0, Y0)
    IN  IF c.nan      \* std::isnan(xplus)
        THEN [ret |-> "ABORTEVENT", x |-> x, y |-> y]
        ELSE IF Abs(xclus - c.xplus) < Tolerance /\ Abs(yclus - c.yplus) < Tolerance
             THEN [ret |-> "EVENT_OK", x |-> c.xplus, y |-> c.yplus]
             ELSE [ret |-> "EVENT_OK", x |-> c.xminus, y |-> c.yminus]

(***************************************************************************)
(* TpcClusterMover::processTrack.                                          *)
(***************************************************************************)
Hit(ckey, global) == [key |-> ckey, pos |-> global]

\* first loop: the TPC entries of global_in, in order (tpc_cluskey_vec and
\* tpc_global_vec side by side)
TpcEntries(in) == SelectSeq(in, LAMBDA e : getTrkrId(e.key) = tpcId)

\* mutant: the else branch that keeps the silicon clusters is missing
SiEntries_Lost(in) == <<>>

\* first loop: what global_moved holds when the loop ends
SiEntries(in) == SelectSeq(in, LAMBDA e : getTrkrId(e.key) # tpcId)

\* mutant: the radius is taken in three dimensions
cluster_radius_3D(global) == sqrt(square(global[1]) + square(global[2]) + square(global[3]))

cluster_radius(global) == sqrt(square(global[1]) + square(global[2]))

\* mutant: the cluster is put on the projected point itself
global_new_Snapped(global, scr) == <<scr.x_proj, scr.y_proj, scr.z_proj>>

\* dx, dy, dz along the trajectory from the cluster radius to the surface radius
global_new(global, scr) ==
    << global[1] - (scr.x_start - scr.x_proj),
       global[2] - (scr.y_start - scr.y_proj),
       global[3] - (scr.z_start - scr.z_proj) >>

\* mutant: the cluster is filed under a key of its own
emplace_back_Rekeyed(moved, cluskey, global) ==
    Append(moved, Hit([cluskey EXCEPT !.clusId = 0], global))

\* global_moved.emplace_back(cluskey, global_new): the cluster key stays fixed
emplace_back(moved, cluskey, global) == Append(moved, Hit(cluskey, global))

\* mutant: a failed intersection does not end the pass, which goes on with
\* what the scratch members hold
MoveCluster_NoContinue(e, f, lr, scr, moved) ==
    LET layer         == getLayer(e.key)
        global        == e.pos
        target_radius == lr[layer - LayerOffset]
        p  == get_circle_circle_intersection(target_radius, f.R, f.X0, f.Y0,
                                             global[1], global[2], scr.x_proj, scr.y_proj)
        s2 == [scr EXCEPT !.x_proj = p.x, !.y_proj = p.y,
                          !.z_proj = LineAt(f.A, f.B, target_radius)]
        r  == cluster_radius(global)
        q  == get_circle_circle_intersection(r, f.R, f.X0, f.Y0,
                                             global[1], global[2], s2.x_start, s2.y_start)
        s4 == [s2 EXCEPT !.x_start = q.x, !.y_start = q.y,
                         !.z_start = LineAt(f.A, f.B, r)]
    IN  [scr |-> s4, moved |-> emplace_back(moved, e.key, global_new(global, s4))]

\* One pass of the second loop for the TPC entry e: the scratch members and
\* global_moved after it.
MoveCluster(e, f, lr, scr, moved) ==
    LET layer         == getLayer(e.key)
        global        == e.pos
        target_radius == lr[layer - LayerOffset]
        p  == get_circle_circle_intersection(target_radius, f.R, f.X0, f.Y0,
                                             global[1], global[2], scr.x_proj, scr.y_proj)
        s1 == [scr EXCEPT !.x_proj = p.x, !.y_proj = p.y]
    IN  IF p.ret = "ABORTEVENT"
        THEN [scr |-> s1, moved |-> moved]
        ELSE LET s2 == [s1 EXCEPT !.z_proj = LineAt(f.A, f.B, target_radius)]
                 r  == cluster_radius(global)
                 q  == get_circle_circle_intersection(r, f.R, f.X0, f.Y0,
                                                      global[1], global[2], s2.x_start, s2.y_start)
                 s3 == [s2 EXCEPT !.x_start = q.x, !.y_start = q.y]
             IN  IF q.ret = "ABORTEVENT"
                 THEN [scr |-> s3, moved |-> moved]
                 ELSE LET s4 == [s3 EXCEPT !.z_start = LineAt(f.A, f.B, r)]
                      IN  [scr |-> s4,
                           moved |-> emplace_back(moved, e.key, global_new(global, s4))]

RECURSIVE MoveLoop(_, _, _, _, _, _)
MoveLoop(i, tpc, f, lr, scr, moved) ==
    IF i > Len(tpc) THEN [scr |-> scr, moved |-> moved]
    ELSE CHOOSE end \in { MoveLoop(i + 1, tpc, f, lr, step.scr, step.moved) :
                              step \in {MoveCluster(tpc[i], f, lr, scr, moved)} } : TRUE

\* mutant: the short path returns global_moved, not global_in
processTrackCall_ReturnsMoved(in, f, lr, scr) ==
    IF Len(TpcEntries(in)) < 3
    THEN [scr |-> scr, moved |-> SiEntries(in)]
    ELSE MoveLoop(1, TpcEntries(in), f, lr, scr, SiEntries(in))

\* [moved |-> the vector returned, scr |-> the scratch members on return]
processTrackCall(in, f, lr, scr) ==
    IF Len(TpcEntries(in)) < 3
    THEN [scr |-> scr, moved |-> in]
    ELSE MoveLoop(1, TpcEntries(in), f, lr, scr, SiEntries(in))

(***************************************************************************)
(* Inputs of processTrack.  The hits of a track carry distinct cluster     *)
(* keys.  Layer 7 has table radius 2425, layer 8: 2475, layer 23: 3250,    *)
(* layer 39: 4841.                                                         *)
(***************************************************************************)
Key(id, layer, n) == [trkrId |-> id, layer |-> layer, clusId |-> n]

\* the hits of the longest track, in the order the track holds them
TrackHits ==
    << Hit(Key("tpc", 7, 4), <<0, 2425, 170>>),        \* on its layer radius
       Hit(Key("mvtx", 0, 1), <<200, 10, 5>>),
       Hit(Key("tpc", 8, 6), <<-300, 2400, -20>>),
       Hit(Key("intt", 4, 2), <<0, 800, -30>>),
       Hit(Key("tpc", 39, 7), <<100, 4800, 200>>),
       Hit(Key("tpc", 7, 8), <<0, 2300, 0>>),
       Hit(Key("tpc", 23, 9), <<2600, 2000, 90>>),
       Hit(Key("tpc", 23, 10), <<900, 3100, -50>>) >>

RECURSIVE Pick(_, _)
\* the entries of TrackHits at the indices in keep, from index i on
Pick(i, keep) ==
    IF i > Len(TrackHits) THEN <<>>
    ELSE IF i \in keep THEN <<TrackHits[i]>> \o Pick(i + 1, keep)
    ELSE Pick(i + 1, keep)

Reverse(q) == [i \in 1..Len(q) |-> q[Len(q) + 1 - i]]

\* hit lists of at most MaxHits entries: any of the hits, in the order of the
\* track or in the opposite order
HitLists ==
    UNION { {Pick(1, keep), Reverse(Pick(1, keep))} :
              keep \in {k \in SUBSET (1..Len(TrackHits)) : Cardinality(k) <= MaxHits} }

\* Results of circle_fit_by_taubin (R, X0, Y0) and line_fit (A, B): a small
\* circle that misses the outer layers, a large one through the origin, and
\* one that reaches no TPC layer.
FitResults ==
    { [R |-> 1000, X0 |-> 0,    Y0 |-> 3400, A |-> 3,  B |-> -40],
      [R |-> 8000, X0 |-> 4800, Y0 |-> 6400, A |-> -5, B |-> 100],
      [R |-> 500,  X0 |-> 300,  Y0 |-> 400,  A |-> 8,  B |-> 7] }

NoFit == [R |-> 0, X0 |-> 0, Y0 |-> 0, A |-> 0, B |-> 0]

\* mvtx holds the last call on the CylinderGeom_Mvtx object: the operation, its
\* arguments, what it returned and, when the argument is the vector that
\* get_local_coords_from_pixel(row, col) just returned, that <<row, col>>.
MvtxCall(op, arg, res, from) == [op |-> op, arg |-> arg, res |-> res, from |-> from]

NoMvtxCall == MvtxCall("none", <<>>, <<>>, <<>>)

(***************************************************************************)
(* SegmentationAlpide (mvtx/SegmentationAlpide.h, outside the sources      *)
(* modelled here): the ALPIDE pixel matrix.  Lengths in nm.  The chip      *)
(* frame has its origin at the centre of the chip, the active matrix is    *)
(* shifted in x by half the difference of the two passive edges; rows      *)
(* count down from the top (largest x), columns up from the left.  The     *)
(* grid is NRows x NCols; the chip itself has 512 x 1024 pixels.           *)
(***************************************************************************)
NRows == 5
NCols == 4

PitchRow == 26880               \* 26.88e-4 cm
PitchCol == 29240               \* 29.24e-4 cm
PassiveEdgeReadOut == 1200000   \* 0.12 cm
PassiveEdgeTop == 37440         \* 37.44e-4 cm

ActiveMatrixSizeRows == PitchRow * NRows
ActiveMatrixSizeCols == PitchCol * NCols

\* x of the top edge of the active matrix in the chip frame
TopEdge == (ActiveMatrixSizeRows - PassiveEdgeTop + PassiveEdgeReadOut) \div 2

localToDetector(x, z) ==
    LET xRow == TopEdge - x
        zCol == z + ActiveMatrixSizeCols \div 2
    IN  IF xRow < 0 \/ xRow >= ActiveMatrixSizeRows \/ zCol < 0 \/ zCol >= ActiveMatrixSizeCols
        THEN [valid |-> FALSE, row |-> -1, col |-> -1]
        ELSE [valid |-> TRUE, row |-> xRow \div PitchRow, col |-> zCol \div PitchCol]

\* the vector is left as constructed, (0, 0, 0), when the indices are out of range
detectorToLocal(row, col) ==
    IF row < 0 \/ row >= NRows \/ col < 0 \/ col >= NCols
    THEN [ok |-> FALSE, loc |-> <<0, 0, 0>>]
    ELSE [ok |-> TRUE,
          loc |-> << TopEdge - PitchRow \div 2 - row * PitchRow,
                     0,
                     col * PitchCol + (PitchCol - ActiveMatrixSizeCols) \div 2 >>]

(***************************************************************************)
(* CylinderGeom_Mvtx.  Lengths in nm.                                      *)
(***************************************************************************)
\* int / int and int % int of C++: the quotient is truncated towards zero
CDiv(a, b) == IF a >= 0 THEN a \div b ELSE -((-a) \div b)

CRem(a, b) == a - b * CDiv(a, b)

EPS == 50                       \* 5e-6 cm

loc_sensor_in_chip == <<581280, -5000, 0>>     \* {0.058128, -0.0005, 0.0} cm

get_NZ == NCols

get_NX == NRows

\* mutant: the sign of the coordinate is lost in the adjustment
EdgeAdjusted_Unsigned(c, size) ==
    IF Abs(Abs(c) - size \div 2) < EPS
    THEN size \div 2 - EPS
    ELSE c

\* the safety check of get_pixel_from_local_coords on one coordinate
EdgeAdjusted(c, size) ==
    IF Abs(Abs(c) - size \div 2) < EPS
    THEN (IF c < 0 THEN -1 ELSE 1) * (size \div 2 - EPS)
    ELSE c

\* mutant: the chip offset is subtracted on the way to the chip frame
get_pixel_from_local_coords_Minus(sensor_local) ==
    LET x == EdgeAdjusted(sensor_local[1], ActiveMatrixSizeRows)
        z == EdgeAdjusted(sensor_local[3], ActiveMatrixSizeCols)
    IN  localToDetector(x - loc_sensor_in_chip[1], z - loc_sensor_in_chip[3])

\* bool get_pixel_from_local_coords(TVector3 sensor_local, int& iRow, int& iCol):
\* [valid |-> the value returned, row |-> iRow, col |-> iCol]
get_pixel_from_local_coords(sensor_local) ==
    LET x == EdgeAdjusted(sensor_local[1], ActiveMatrixSizeRows)
        z == EdgeAdjusted(sensor_local[3], ActiveMatrixSizeCols)
    IN  localToDetector(x + loc_sensor_in_chip[1], z + loc_sensor_in_chip[3])

\* mutant: the index is built as the comment above the function words it,
\* (column) + (row) * get_NX()
get_pixel_from_local_coords_index_ColumnFirst(sensor_local) ==
    LET px == get_pixel_from_local_coords(sensor_local)
    IN  px.col + px.row * get_NX

\* int get_pixel_from_local_coords(const TVector3& sensor_local)
get_pixel_from_local_coords_index(sensor_local) ==
    LET px == get_pixel_from_local_coords(sensor_local)
    IN  px.row + px.col * get_NX

\* mutant: the chip offset is added on the way back to the sensor frame
get_local_coords_from_pixel_Plus(iRow, iCol) ==
    LET local == detectorToLocal(iRow, iCol).loc
    IN  << local[1] + loc_sensor_in_chip[1],
           local[2] + loc_sensor_in_chip[2],
           local[3] + loc_sensor_in_chip[3] >>

\* mutant: the vector of a failed conversion is returned as it is
get_local_coords_from_pixel_EarlyReturn(iRow, iCol) ==
    LET conv == detectorToLocal(iRow, iCol)
    IN  IF ~conv.ok THEN conv.loc
        ELSE << conv.loc[1] - loc_sensor_in_chip[1],
                conv.loc[2] - loc_sensor_in_chip[2],
                conv.loc[3] - loc_sensor_in_chip[3] >>

\* TVector3 get_local_coords_from_pixel(int iRow, int iCol)
get_local_coords_from_pixel(iRow, iCol) ==
    LET local == detectorToLocal(iRow, iCol).loc
    IN  << local[1] - loc_sensor_in_chip[1],
           local[2] - loc_sensor_in_chip[2],
           local[3] - loc_sensor_in_chip[3] >>

\* TVector3 get_local_coords_from_pixel(int NXZ)
get_local_coords_from_pixel_index(NXZ) ==
    get_local_coords_from_pixel(CRem(NXZ, get_NX), CDiv(NXZ, get_NX))

get_pixel_X_from_pixel_number(NXZ) == CRem(NXZ, get_NX)

get_pixel_Z_from_pixel_number(NXZ) == CDiv(NXZ, get_NX)

\* mutant: the column is weighted with the number of columns
get_pixel_number_from_xbin_zbin_NZ(xbin, zbin) == xbin + zbin * get_NZ

get_pixel_number_from_xbin_zbin(xbin, zbin) == xbin + zbin * get_NX

(***************************************************************************)
(* CylinderGeom_Mvtx: the object and get_sensor_indices_from_world_coords.  *)
(* Lengths in nm, angles in units of 1e-4 rad.                             *)
(***************************************************************************)
SensorLayerThickness == 30000       \* SegmentationAlpide, 30.e-4 cm

M_PI == 31416

\* {0.0275, -0.02075, z} cm with z from -12.060 to 12.060 in steps of 3.015
inner_loc_chip_in_module_data ==
    [j \in 0..8 |-> <<275000, -207500, (j - 4) * 30150000>>]

\* the data members when the constructor returns
CylinderGeom_Mvtx(in_layer, in_N_staves, in_layer_nominal_radius, in_phistep, in_phitilt, in_phi0) ==
    [layer |-> in_layer,
     N_staves |-> in_N_staves,
     N_half_staves |-> 0,
     layer_radius |-> in_layer_nominal_radius,
     stave_phi_step |-> in_phistep,
     stave_phi_tilt |-> in_phitilt,
     stave_phi_0 |-> in_phi0,
     loc_sensor_in_chip |-> loc_sensor_in_chip,
     inner_loc_chip_in_module |-> inner_loc_chip_in_module_data,
     inner_loc_module_in_halfstave |-> <<0, 0, 0>>,
     inner_loc_halfstave_in_stave |-> <<-275000, 182500, 0>>,
     pixel_x |-> PitchRow,
     pixel_z |-> PitchCol,
     pixel_thickness |-> SensorLayerThickness]

\* arctangent of num/den for 0 <= num <= den, den > 0: the slope in
\* thousandths, then pi/4 * t + 0.273 * t * (1 - t), which is within 0.004 rad
\* of the arctangent and exact at t = 0 and t = 1
AtanUnit(num, den) ==
    LET t == IF den >= 1000 THEN num \div (den \div 1000) ELSE (1000 * num) \div den
        tt == IF t > 1000 THEN 1000 ELSE t
    IN  (7854 * tt) \div 1000 + (2730 * tt * (1000 - tt)) \div 1000000

\* atan2 of <cmath>: the azimuth of (x, y) in (-pi, pi]
atan2(y, x) ==
    LET ax == Abs(x)
        ay == Abs(y)
        a  == IF ax = 0 /\ ay = 0 THEN 0
              ELSE IF ay <= ax THEN AtanUnit(ay, ax)
              ELSE M_PI \div 2 - AtanUnit(ax, ay)
    IN  IF x >= 0 THEN (IF y >= 0 THEN a ELSE -a)
        ELSE (IF y >= 0 THEN M_PI - a ELSE a - M_PI)

\* round(n / d) of <cmath> for d > 0: to the nearest integer, halves away
\* from zero
round(n, d) ==
    IF n >= 0 THEN (2 * n + d) \div (2 * d) ELSE -((2 * (-n) + d) \div (2 * d))

\* The value an int has when it is stored in an unsigned int (32 bits): v
\* modulo 2^32, held as its two 16-bit halves, the value being hi * 2^16 + lo.
unsigned_int(v) == [hi |-> (v \div 65536) % 65536, lo |-> v % 65536]

\* void get_sensor_indices_from_world_coords(std::vector<double>& world,
\*     unsigned int& stave_index, unsigned int& chip_index)
get_sensor_indices_from_world_coords(g, world) ==
    LET at   == atan2(world[2], world[1])
        phi  == IF at < 0 THEN at + 2 * M_PI ELSE at
        stave_tmp == round(phi - g.stave_phi_0, g.stave_phi_step)
        chip_delta_z == (g.inner_loc_chip_in_module[8][3]
                           - g.inner_loc_chip_in_module[0][3]) \div 8
        chip_tmp == round(world[3], chip_delta_z) + 4
    IN  [stave_index |-> unsigned_int(stave_tmp), chip_index |-> unsigned_int(chip_tmp)]

\* what the accessors of the object return
Getters(g) ==
    [get_layer |-> g.layer,
     get_radius |-> g.layer_radius,
     get_pixel_x |-> g.pixel_x,
     get_pixel_z |-> g.pixel_z,
     get_pixel_thickness |-> g.pixel_thickness,
     get_stave_phi_tilt |-> g.stave_phi_tilt,
     get_stave_phi_0 |-> g.stave_phi_0,
     get_N_staves |-> g.N_staves,
     get_N_half_staves |-> g.N_half_staves,
     get_NZ |-> get_NZ,
     get_NX |-> get_NX]

(***************************************************************************)
(* TpcClusterMover as a state machine: constructed, then set_verbosity any *)
(* number of times and one processTrack call.                              *)
(***************************************************************************)
Init ==
    /\ layer_radius = ConstructedLayerRadius
    /\ verbosity = 0
    /\ scratch = ZeroScratch
    /\ pc = "idle"
    /\ global_in = <<>>
    /\ fit = NoFit
    /\ global_moved = <<>>
    /\ cellgeo = <<>>
    /\ overrun = <<>>
    /\ ncalls = 0
    /\ scratch_in = ZeroScratch
    /\ calls = {}
    /\ thr = <<>>
    /\ mvtx = NoMvtxCall
    /\ geom = CylinderGeom_Mvtx(0, 0, 30000000, 0, 0, 0)
    /\ NoOthers

\* silent, and above every threshold of the diagnostics (> 0, > 1, > 2)
VerbosityLevels == {0, 3}

set_verbosity(verb) ==
    /\ verbosity' = verb
    /\ UNCHANGED <<layer_radius, scratch, pc, global_in, fit, global_moved,
                   cellgeo, overrun, ncalls, scratch_in, calls, thr, mvtx, geom,
                   othervars>>

\* The lines processTrack writes to std::cout: one for a track with too few
\* TPC clusters when _verbosity > 0, four for each cluster it moved when
\* _verbosity > 2.
Diagnostics(in, moved, verb) ==
    IF Len(TpcEntries(in)) < 3
    THEN IF verb > 0 THEN 1 ELSE 0
    ELSE IF verb > 2 THEN 4 * Len(TpcEntries(moved)) ELSE 0

\* mutant: emplace_back sits inside the block that _verbosity > 2 opens
processTrack_EmplaceInDiagnostics(in, f) ==
    /\ \E call \in {processTrackCall(in, f, layer_radius, scratch)} :
        \E moved \in {IF verbosity > 2 \/ Len(TpcEntries(in)) < 3
                      THEN call.moved ELSE SiEntries(in)} :
           /\ global_moved' = moved
           /\ scratch' = call.scr
           /\ calls' = calls \cup {[verbosity |-> verbosity, in |-> in, f |-> f,
                                     moved |-> moved,
                                     cout |-> Diagnostics(in, moved, verbosity)]}
    /\ global_in' = in
    /\ fit' = f
    /\ pc' = "returned"
    /\ ncalls' = ncalls + 1
    /\ scratch_in' = scratch
    /\ UNCHANGED <<layer_radius, verbosity, cellgeo, overrun, thr, mvtx, geom, othervars>>

processTrack(in, f) ==
    /\ \E call \in {processTrackCall(in, f, layer_radius, scratch)} :
           /\ global_moved' = call.moved
           /\ scratch' = call.scr
           /\ calls' = calls \cup {[verbosity |-> verbosity, in |-> in, f |-> f,
                                     moved |-> call.moved,
                                     cout |-> Diagnostics(in, call.moved, verbosity)]}
    /\ global_in' = in
    /\ fit' = f
    /\ pc' = "returned"
    /\ ncalls' = ncalls + 1
    /\ scratch_in' = scratch
    /\ UNCHANGED <<layer_radius, verbosity, cellgeo, overrun, thr, mvtx, geom, othervars>>

Next ==
    \/ \E verb \in VerbosityLevels : set_verbosity(verb)
    \/ /\ pc = "idle"
       /\ \E in \in HitLists, f \in FitResults : processTrack(in, f)

Spec == Init /\ [][Next]_vars

(***************************************************************************)
(* TpcClusterMover over its life: constructed, initialize_geometry with    *)
(* the radii of a geometry container, and a series of processTrack calls.  *)
(***************************************************************************)
MaxCalls == 2         \* processTrack calls in a series

\* The radii of the layers of a PHG4TpcGeomContainer, in layer order: the
\* default radius of each layer moved by shift, for n layers.
CellGeoRadii(n, shift) ==
    [i \in 1..n |->
        IF i <= NLayers THEN ConstructedLayerRadius[i - 1] + shift
        ELSE outer_tpc_max_radius + (i - NLayers) * outer_tpc_spacing + shift]

\* containers of 48 layers, of one layer less and of one layer more
CellGeometries ==
    { CellGeoRadii(NLayers, 8), CellGeoRadii(NLayers - 1, -8), CellGeoRadii(NLayers + 1, 16) }

\* the loop of initialize_geometry: layer_radius[layer] = radius, layer = 0, 1, ...
\* for every layer of the container; what the 48 entries of the array hold after it
initialize_geometry_table(lr, radii) ==
    [i \in 0..(NLayers - 1) |-> IF i < Len(radii) THEN radii[i + 1] ELSE lr[i]]

\* ... and what it wrote at layer_radius[48], layer_radius[49], ...
initialize_geometry_behind(radii) ==
    IF Len(radii) > NLayers THEN SubSeq(radii, NLayers + 1, Len(radii)) ELSE <<>>

\* A write behind the end of the array is undefined: it lands on the members
\* that follow layer_radius in the object, or the program is stopped.
initialize_geometry(radii) ==
    /\ layer_radius' = initialize_geometry_table(layer_radius, radii)
    /\ cellgeo' = radii
    /\ \E outcome \in (IF Len(radii) > NLayers THEN {"overwritten", "terminated"} ELSE {"ok"}) :
           /\ overrun' = IF outcome = "overwritten"
                          THEN initialize_geometry_behind(radii) ELSE overrun
           /\ pc' = IF outcome = "terminated" THEN "terminated" ELSE pc
    /\ UNCHANGED <<verbosity, scratch, global_in, fit, global_moved, ncalls, scratch_in,
                   calls, thr, mvtx, geom, othervars>>

\* the TPC hits of TrackHits, in the order of the track
TpcTrackHits == TpcEntries(TrackHits)

\* tracks of three TPC hits that follow each other
SeriesTracks ==
    { SubSeq(TpcTrackHits, i, i + 2) : i \in 1..(Len(TpcTrackHits) - 2) }

NextTpc ==
    /\ pc # "terminated"
    /\ \/ \E verb \in VerbosityLevels : set_verbosity(verb)
       \/ /\ ncalls = 0       \* the geometry is set up before tracks are processed
          /\ \E radii \in CellGeometries : initialize_geometry(radii)
       \/ /\ ncalls < MaxCalls
          /\ \E in \in SeriesTracks, f \in FitResults : processTrack(in, f)

SpecTpc == Init /\ [][NextTpc]_vars

(***************************************************************************)
(* Two processTrack calls that run side by side on one instance, each in   *)
(* a thread of its own.  The arguments and the local variables of a call   *)
(* (global_in, the fit, tpc_cluskey_vec and tpc_global_vec, i,             *)
(* global_moved) belong to its thread; layer_radius and the scratch        *)
(* members belong to the instance.  A step of a thread is one statement    *)
(* group of the second loop.  The unsynchronised accesses to the scratch   *)
(* members are a data race; its outcomes are taken to be the interleavings *)
(* of these steps.                                                         *)
(***************************************************************************)
Thread(in, f) ==
    [in |-> in, f |-> f, at |-> "start", tpc |-> <<>>, i |-> 0,
     moved |-> <<>>, result |-> <<>>]

\* independent tracks: the first three and the last three TPC hits, each
\* with a fit of its own
ThreadTracks ==
    << SubSeq(TpcTrackHits, 1, 3),
       SubSeq(TpcTrackHits, Len(TpcTrackHits) - 2, Len(TpcTrackHits)) >>

InitThreads ==
    /\ layer_radius = ConstructedLayerRadius
    /\ verbosity = 0
    /\ scratch = ZeroScratch
    /\ pc = "idle"
    /\ global_in = <<>>
    /\ fit = NoFit
    /\ global_moved = <<>>
    /\ cellgeo = <<>>
    /\ overrun = <<>>
    /\ ncalls = 0
    /\ scratch_in = ZeroScratch
    /\ calls = {}
    /\ \E f1 \in FitResults : \E f2 \in FitResults \ {f1} :
           thr = << Thread(ThreadTracks[1], f1), Thread(ThreadTracks[2], f2) >>
    /\ mvtx = NoMvtxCall
    /\ geom = CylinderGeom_Mvtx(0, 0, 30000000, 0, 0, 0)
    /\ NoOthers

\* ++i at the end of a pass, and return global_moved when the loop has ended
NextPass(th, moved) ==
    IF th.i + 1 > Len(th.tpc)
    THEN [th EXCEPT !.i = th.i + 1, !.moved = moved, !.at = "done", !.result = moved]
    ELSE [th EXCEPT !.i = th.i + 1, !.moved = moved, !.at = "proj"]

\* the TPC entry of the pass the thread is in
Entry(th) == th.tpc[th.i]

TargetRadius(th) == layer_radius[getLayer(Entry(th).key) - LayerOffset]

\* up to the second loop: the first loop, the short path, the two fits
ThreadBegin(t) ==
    /\ thr[t].at = "start"
    /\ thr' = [thr EXCEPT ![t] =
                 IF Len(TpcEntries(thr[t].in)) < 3
                 THEN [thr[t] EXCEPT !.at = "done", !.result = thr[t].in]
                 ELSE [thr[t] EXCEPT !.at = "proj", !.tpc = TpcEntries(thr[t].in),
                                     !.i = 1, !.moved = SiEntries(thr[t].in)]]
    /\ UNCHANGED <<layer_radius, verbosity, scratch, pc, global_in, fit, global_moved,
                   cellgeo, overrun, ncalls, scratch_in, calls, mvtx, geom,
                   othervars>>

\* the intersection at the surface radius, into _x_proj and _y_proj
ThreadProj(t) ==
    /\ thr[t].at = "proj"
    /\ \E p \in { get_circle_circle_intersection(TargetRadius(thr[t]),
                      thr[t].f.R, thr[t].f.X0, thr[t].f.Y0,
                      Entry(thr[t]).pos[1], Entry(thr[t]).pos[2],
                      scratch.x_proj, scratch.y_proj) } :
           /\ scratch' = [scratch EXCEPT !.x_proj = p.x, !.y_proj = p.y]
           /\ thr' = [thr EXCEPT ![t] = IF p.ret = "ABORTEVENT"
                                        THEN NextPass(thr[t], thr[t].moved)
                                        ELSE [thr[t] EXCEPT !.at = "z_proj"]]
    /\ UNCHANGED <<layer_radius, verbosity, pc, global_in, fit, global_moved,
                   cellgeo, overrun, ncalls, scratch_in, calls, mvtx, geom,
                   othervars>>

\* _z_proj = B + A * target_radius
ThreadZProj(t) ==
    /\ thr[t].at = "z_proj"
    /\ scratch' = [scratch EXCEPT
                     !.z_proj = LineAt(thr[t].f.A, thr[t].f.B, TargetRadius(thr[t]))]
    /\ thr' = [thr EXCEPT ![t].at = "start_point"]
    /\ UNCHANGED <<layer_radius, verbosity, pc, global_in, fit, global_moved,
                   cellgeo, overrun, ncalls, scratch_in, calls, mvtx, geom,
                   othervars>>

\* the intersection at the cluster radius, into _x_start and _y_start
ThreadStart(t) ==
    /\ thr[t].at = "start_point"
    /\ \E q \in { get_circle_circle_intersection(cluster_radius(Entry(thr[t]).pos),
                      thr[t].f.R, thr[t].f.X0, thr[t].f.Y0,
                      Entry(thr[t]).pos[1], Entry(thr[t]).pos[2],
                      scratch.x_start, scratch.y_start) } :
           /\ scratch' = [scratch EXCEPT !.x_start = q.x, !.y_start = q.y]
           /\ thr' = [thr EXCEPT ![t] = IF q.ret = "ABORTEVENT"
                                        THEN NextPass(thr[t], thr[t].moved)
                                        ELSE [thr[t] EXCEPT !.at = "z_start"]]
    /\ UNCHANGED <<layer_radius, verbosity, pc, global_in, fit, global_moved,
                   cellgeo, overrun, ncalls, scratch_in, calls, mvtx, geom,
                   othervars>>

\* _z_start = B + A * cluster_radius
ThreadZStart(t) ==
    /\ thr[t].at = "z_start"
    /\ scratch' = [scratch EXCEPT
                     !.z_start = LineAt(thr[t].f.A, thr[t].f.B,
                                        cluster_radius(Entry(thr[t]).pos))]
    /\ thr' = [thr EXCEPT ![t].at = "emplace"]
    /\ UNCHANGED <<layer_radius, verbosity, pc, global_in, fit, global_moved,
                   cellgeo, overrun, ncalls, scratch_in, calls, mvtx, geom,
                   othervars>>

\* xnew, ynew, znew from the scratch members, and emplace_back
ThreadEmplace(t) ==
    /\ thr[t].at = "emplace"
    /\ thr' = [thr EXCEPT ![t] =
                 NextPass(thr[t], emplace_back(thr[t].moved, Entry(thr[t]).key,
                                               global_new(Entry(thr[t]).pos, scratch)))]
    /\ UNCHANGED <<layer_radius, verbosity, scratch, pc, global_in, fit, global_moved,
                   cellgeo, overrun, ncalls, scratch_in, calls, mvtx, geom,
                   othervars>>

NextThreads ==
    \E t \in DOMAIN thr :
        \/ ThreadBegin(t)
        \/ ThreadProj(t)
        \/ ThreadZProj(t)
        \/ ThreadStart(t)
        \/ ThreadZStart(t)
        \/ ThreadEmplace(t)

SpecThreads == InitThreads /\ [][NextThreads]_vars

(***************************************************************************)
(* CylinderGeom_Mvtx as a state machine: constructed, then any sequence of *)
(* calls of its pixel operations.                                          *)
(***************************************************************************)
\* coordinates around the two edges of an active-matrix side of the given
\* size, and two in the middle
Around(size, pitch) ==
    { sgn * (size \div 2 + d) : sgn \in {-1, 1},
                                d \in {-pitch, -50, -49, -10, 0, 10, 49, 50} }
        \cup {0, pitch \div 2}

SensorPoints ==
    { <<x, 0, z>> : x \in Around(ActiveMatrixSizeRows, PitchRow),
                    z \in Around(ActiveMatrixSizeCols, PitchCol) }

RowArgs == -1 .. NRows
ColArgs == -1 .. NCols
IndexArgs == -1 .. (NRows * NCols)

\* constructor arguments (layer, staves, radius, phi step, tilt, phi0): an
\* inner layer of 12 staves that starts at phi = 0 and an outer one of 20
\* staves whose first stave sits at phi0 = 0.2 rad
ConstructorArgs ==
    { <<0, 12, 24610000, 5236, 2950, 0>>,
      <<2, 20, 40230000, 3142, 2950, 2000>> }

\* world points: six azimuths, and z at the chip slots 0, 4 and 8, one slot
\* beyond either end of the stave, and either side of the border between
\* the slots 4 and 5
WorldPoints ==
    { <<xy[1], xy[2], z>> :
        xy \in { <<25000000, 0>>, <<25000000, 1000000>>, <<0, 25000000>>,
                 <<-25000000, 25000000>>, <<-25000000, -500000>>, <<25000000, -1000000>> },
        z \in { -150750000, -120600000, 0, 15074999, 15075000, 120600000, 150750000 } }

LayerArgs == {0, 2}

InitMvtx ==
    /\ layer_radius = ConstructedLayerRadius
    /\ verbosity = 0
    /\ scratch = ZeroScratch
    /\ pc = "idle"
    /\ global_in = <<>>
    /\ fit = NoFit
    /\ global_moved = <<>>
    /\ cellgeo = <<>>
    /\ overrun = <<>>
    /\ ncalls = 0
    /\ scratch_in = ZeroScratch
    /\ calls = {}
    /\ thr = <<>>
    /\ mvtx = NoMvtxCall
    /\ \E a \in ConstructorArgs :
           geom = CylinderGeom_Mvtx(a[1], a[2], a[3], a[4], a[5], a[6])
    /\ NoOthers

\* void set_layer(const int i) { layer = i; }
set_layer(i) ==
    /\ geom' = [geom EXCEPT !.layer = i]
    /\ mvtx' = MvtxCall("set_layer", i, <<>>, <<>>)
    /\ UNCHANGED <<tpcvars, othervars>>

SensorIndicesFromWorldCoords(world) ==
    /\ mvtx' = MvtxCall("get_sensor_indices_from_world_coords", world,
                        get_sensor_indices_from_world_coords(geom, world), <<>>)
    /\ UNCHANGED <<tpcvars, geom, othervars>>

\* get_layer, get_radius, ..., get_NX
Getter(name) ==
    /\ mvtx' = MvtxCall(name, <<>>, Getters(geom)[name], <<>>)
    /\ UNCHANGED <<tpcvars, geom, othervars>>

\* identify writes the members to the stream
identify ==
    /\ mvtx' = MvtxCall("identify", <<>>,
                        <<geom.layer, geom.layer_radius, geom.N_staves, geom.N_half_staves,
                          geom.pixel_x, geom.pixel_z, geom.pixel_thickness>>, <<>>)
    /\ UNCHANGED <<tpcvars, geom, othervars>>

LocalCoordsFromPixel(iRow, iCol) ==
    /\ mvtx' = MvtxCall("get_local_coords_from_pixel", <<iRow, iCol>>,
                        get_local_coords_from_pixel(iRow, iCol), <<>>)
    /\ UNCHANGED <<tpcvars, geom, othervars>>

PixelFromLocalCoords(sensor_local, from) ==
    /\ mvtx' = MvtxCall("get_pixel_from_local_coords", sensor_local,
                        get_pixel_from_local_coords(sensor_local), from)
    /\ UNCHANGED <<tpcvars, geom, othervars>>

PixelIndexFromLocalCoords(sensor_local) ==
    /\ mvtx' = MvtxCall("get_pixel_from_local_coords_index", sensor_local,
                        get_pixel_from_local_coords_index(sensor_local), <<>>)
    /\ UNCHANGED <<tpcvars, geom, othervars>>

LocalCoordsFromPixelIndex(NXZ) ==
    /\ mvtx' = MvtxCall("get_local_coords_from_pixel_index", NXZ,
                        get_local_coords_from_pixel_index(NXZ), <<>>)
    /\ UNCHANGED <<tpcvars, geom, othervars>>

PixelNumber(xbin, zbin) ==
    /\ mvtx' = MvtxCall("get_pixel_number_from_xbin_zbin", <<xbin, zbin>>,
                        get_pixel_number_from_xbin_zbin(xbin, zbin), <<>>)
    /\ UNCHANGED <<tpcvars, geom, othervars>>

PixelX(NXZ) ==
    /\ mvtx' = MvtxCall("get_pixel_X_from_pixel_number", NXZ,
                        get_pixel_X_from_pixel_number(NXZ), <<>>)
    /\ UNCHANGED <<tpcvars, geom, othervars>>

PixelZ(NXZ) ==
    /\ mvtx' = MvtxCall("get_pixel_Z_from_pixel_number", NXZ,
                        get_pixel_Z_from_pixel_number(NXZ), <<>>)
    /\ UNCHANGED <<tpcvars, geom, othervars>>

NextMvtx ==
    \/ \E iRow \in RowArgs, iCol \in ColArgs : LocalCoordsFromPixel(iRow, iCol)
    \/ \E p \in SensorPoints : PixelFromLocalCoords(p, <<>>)
    \/ /\ mvtx.op = "get_local_coords_from_pixel"
       /\ PixelFromLocalCoords(mvtx.res, mvtx.arg)
    \/ \E p \in SensorPoints : PixelIndexFromLocalCoords(p)
    \/ \E NXZ \in IndexArgs : LocalCoordsFromPixelIndex(NXZ)
    \/ \E xbin \in RowArgs, zbin \in ColArgs : PixelNumber(xbin, zbin)
    \/ \E NXZ \in IndexArgs : PixelX(NXZ)
    \/ \E NXZ \in IndexArgs : PixelZ(NXZ)
    \/ \E world \in WorldPoints : SensorIndicesFromWorldCoords(world)
    \/ \E i \in LayerArgs : set_layer(i)
    \/ \E name \in DOMAIN Getters(geom) : Getter(name)
    \/ identify

SpecMvtx == InitMvtx /\ [][NextMvtx]_vars

(***************************************************************************)
(* HepMCParticleTrigger (generators/Herwig/HepMCTrigger).  Momenta in      *)
(* units of 0.1 GeV, pseudorapidities in units of 0.1.  The header of the  *)
(* class is not among the sources: the counters n_evts and n_good start at *)
(* 0, and m_doStableParticleOnly is taken either way.                      *)
(*                                                                         *)
(* A PHHepMCGenEventMap is [node |-> whether the node is found, events |-> *)
(* its entries in key order]; an entry is [null |-> TRUE] when the         *)
(* PHHepMCGenEvent or its GenEvent is missing, else it carries the         *)
(* particles of the GenEvent and the jets fastjet clusters from them.  A   *)
(* particle is [pdg_id, end_vertex, status, px, py, pz, eta], eta being    *)
(* what HepMC::FourVector::eta() gives for its momentum.                   *)
(***************************************************************************)
HepMCParticleTrigger(trigger_thresh, n_incom, up_lim, stable_only) ==
    [threshold |-> trigger_thresh, goal_event_number |-> n_incom, set_event_limit |-> up_lim,
     _theEtaHigh |-> 11, _theEtaLow |-> -11,
     _thePtHigh |-> 9999, _thePtLow |-> IF trigger_thresh # 0 THEN trigger_thresh ELSE 0,
     _thePHigh |-> 9999, _thePLow |-> -9999,
     _thePzHigh |-> 9999, _thePzLow |-> -9999,
     _doEtaHighCut |-> TRUE, _doEtaLowCut |-> TRUE, _doBothEtaCut |-> TRUE,
     _doAbsEtaHighCut |-> FALSE, _doAbsEtaLowCut |-> FALSE, _doBothAbsEtaCut |-> FALSE,
     _doPtHighCut |-> FALSE, _doPtLowCut |-> (trigger_thresh # 0), _doBothPtCut |-> FALSE,
     _doPHighCut |-> FALSE, _doPLowCut |-> FALSE, _doBothPCut |-> FALSE,
     _doPzHighCut |-> FALSE, _doPzLowCut |-> FALSE, _doBothPzCut |-> FALSE,
     _theParticles |-> <<>>, m_doStableParticleOnly |-> stable_only,
     n_evts |-> 0, n_good |-> 0]

\* The members the Set<Cut>High, Set<Cut>Low and Set<Cut>HighLow methods of
\* each cut write and read.
CutMembers ==
    [Pt     |-> [high |-> "_thePtHigh",  low |-> "_thePtLow",  doHigh |-> "_doPtHighCut",
                 doLow |-> "_doPtLowCut",  doBoth |-> "_doBothPtCut"],
     P      |-> [high |-> "_thePHigh",   low |-> "_thePLow",   doHigh |-> "_doPHighCut",
                 doLow |-> "_doPLowCut",   doBoth |-> "_doBothPCut"],
     Pz     |-> [high |-> "_thePzHigh",  low |-> "_thePzLow",  doHigh |-> "_doPzHighCut",
                 doLow |-> "_doPzLowCut",  doBoth |-> "_doBothPzCut"],
     Eta    |-> [high |-> "_theEtaHigh", low |-> "_theEtaLow", doHigh |-> "_doEtaHighCut",
                 doLow |-> "_doEtaLowCut", doBoth |-> "_doBothEtaCut"],
     AbsEta |-> [high |-> "_theEtaHigh", low |-> "_theEtaLow", doHigh |-> "_doAbsEtaHighCut",
                 doLow |-> "_doAbsEtaLowCut", doBoth |-> "_doBothAbsEtaCut"]]

\* whether getParticles counts the particle: the stable-particle filter and
\* the cuts, in the order of the code
PassesCuts(t, part) ==
    LET p_M == sqrt(square(part.px) + square(part.py) + square(part.pz))
        pt  == sqrt(square(part.px) + square(part.py))
        eta == part.eta
    IN  /\ ~(t.m_doStableParticleOnly /\ (part.end_vertex \/ part.status # 1))
        /\ ~((t._doEtaHighCut \/ t._doBothEtaCut) /\ eta > t._theEtaHigh)
        /\ ~((t._doEtaLowCut \/ t._doBothEtaCut) /\ eta < t._theEtaLow)
        /\ ~((t._doAbsEtaHighCut \/ t._doBothAbsEtaCut) /\ Abs(eta) > t._theEtaHigh)
        /\ ~((t._doAbsEtaLowCut \/ t._doBothAbsEtaCut) /\ Abs(eta) < t._theEtaLow)
        /\ ~((t._doPtHighCut \/ t._doBothPtCut) /\ pt > t._thePtHigh)
        /\ ~((t._doPtLowCut \/ t._doBothPtCut) /\ pt < t._thePtLow)
        /\ ~((t._doPHighCut \/ t._doBothPCut) /\ p_M > t._thePHigh)
        /\ ~((t._doPLowCut \/ t._doBothPCut) /\ p_M < t._thePLow)
        /\ ~((t._doPzHighCut \/ t._doBothPzCut) /\ part.pz > t._thePzHigh)
        /\ ~((t._doPzLowCut \/ t._doBothPzCut) /\ part.pz < t._thePzLow)

\* particle_types of getParticles: absolute PDG id -> number of counted particles
particle_types(t, e1) ==
    [pid \in {Abs(e1[i].pdg_id) : i \in {j \in DOMAIN e1 : PassesCuts(t, e1[j])}} |->
        Cardinality({i \in DOMAIN e1 : PassesCuts(t, e1[i]) /\ Abs(e1[i].pdg_id) = pid})]

particleAboveThreshold(n_particles, trigger_particle) ==
    IF Abs(trigger_particle) \in DOMAIN n_particles
    THEN n_particles[Abs(trigger_particle)]
    ELSE 0

\* mutant: the map is searched for the signed id
getParticles_Signed(t, e1) ==
    [i \in DOMAIN t._theParticles |->
        IF t._theParticles[i] \in DOMAIN particle_types(t, e1)
        THEN particle_types(t, e1)[t._theParticles[i]] ELSE 0]

getParticles(t, e1) ==
    [i \in DOMAIN t._theParticles |->
        particleAboveThreshold(particle_types(t, e1), t._theParticles[i])]

HepMCParticleTrigger_isGoodEvent(t, e1) ==
    \A i \in DOMAIN getParticles(t, e1) : ~(getParticles(t, e1)[i] <= 0)

\* [trig |-> the members after the call, ret |-> the return code]
HepMCParticleTrigger_process_event(t, phg) ==
    LET counted == [t EXCEPT !.n_evts = @ + 1]
        abort   == [trig |-> counted, ret |-> "ABORTEVENT"]
    IN  IF t.set_event_limit /\ t.n_good >= t.goal_event_number THEN abort
        ELSE IF ~phg.node THEN abort
        ELSE IF \E i \in DOMAIN phg.events :
                    \/ phg.events[i].null
                    \/ ~HepMCParticleTrigger_isGoodEvent(t, phg.events[i].particles)
             THEN abort
             ELSE \* good_event is what the last pass of the loop left in it
                  [trig |-> IF Len(phg.events) > 0
                            THEN [counted EXCEPT !.n_good = @ + 1] ELSE counted,
                   ret |-> "EVENT_OK"]

\* calls that configure a trigger before the first event
MaxSetup == 2

GenEvent(particles, jets) == [null |-> FALSE, particles |-> particles, jets |-> jets]
NullEvent == [null |-> TRUE, particles |-> <<>>, jets |-> <<>>]
GenParticle(pdg_id, end_vertex, status, px, py, pz, eta) ==
    [pdg_id |-> pdg_id, end_vertex |-> end_vertex, status |-> status,
     px |-> px, py |-> py, pz |-> pz, eta |-> eta]

\* a central electron, a forward positron, a muon at negative eta, and an
\* antimuon that decayed
TriggerEvents ==
    [electron   |-> GenEvent(<<GenParticle(11, FALSE, 1, 6, 8, 0, 0)>>, <<>>),
     dilepton   |-> GenEvent(<<GenParticle(11, FALSE, 1, 6, 8, 0, 0),
                               GenParticle(13, FALSE, 1, 9, 12, -13, -8)>>, <<>>),
     muon       |-> GenEvent(<<GenParticle(13, FALSE, 1, 9, 12, -13, -8)>>, <<>>),
     forward    |-> GenEvent(<<GenParticle(-11, FALSE, 1, 6, 8, 24, 16),
                               GenParticle(-13, TRUE, 2, 6, 8, 0, 0)>>, <<>>),
     empty      |-> GenEvent(<<>>, <<>>)]

\* the node is missing; the map is empty; one event; signal and background
\* event; an entry without event
TriggerEventMaps ==
    { [node |-> FALSE, events |-> <<>>],
      [node |-> TRUE,  events |-> <<>>],
      [node |-> TRUE,  events |-> <<TriggerEvents.dilepton>>],
      [node |-> TRUE,  events |-> <<TriggerEvents.muon>>],
      [node |-> TRUE,  events |-> <<TriggerEvents.dilepton, TriggerEvents.forward>>],
      [node |-> TRUE,  events |-> <<TriggerEvents.electron, TriggerEvents.empty>>],
      [node |-> TRUE,  events |-> <<NullEvent>>] }

\* the argument of every Set<Cut>High, of every Set<Cut>Low
SetterArgs == [high |-> 12, low |-> 5]
TriggerPids == {11, -13}

InitPTrig ==
    /\ NoTracking /\ NoJTrig /\ NoIfh /\ NoCPruner /\ NoHPruner /\ NoQA
    /\ \E trigger_thresh \in {0, 12}, up_lim \in BOOLEAN, stable_only \in BOOLEAN :
           ptrig = HepMCParticleTrigger(trigger_thresh, 1, up_lim, stable_only)
    /\ ptrig_call = [nsetup |-> 0, nok |-> 0, ret |-> "none", phg |-> <<>>]

\* Set<Cut>High(pt) for the cut Pt, P, Pz, Eta or AbsEta
SetCutHigh(cut, pt) ==
    /\ ptrig.n_evts = 0 /\ ptrig_call.nsetup < MaxSetup
    /\ ptrig' = [ptrig EXCEPT ![CutMembers[cut].high] = pt,
                              ![CutMembers[cut].doHigh] = TRUE,
                              ![CutMembers[cut].doBoth] =
                                    IF ptrig[CutMembers[cut].doLow] THEN TRUE ELSE @]
    /\ ptrig_call' = [ptrig_call EXCEPT !.nsetup = @ + 1]
    /\ UNCHANGED <<tpcvars, mvtxvars, jtrigvars, ifhvars, cprunervars, hprunervars, qavars>>

SetCutLow(cut, pt) ==
    /\ ptrig.n_evts = 0 /\ ptrig_call.nsetup < MaxSetup
    /\ ptrig' = [ptrig EXCEPT ![CutMembers[cut].low] = pt,
                              ![CutMembers[cut].doLow] = TRUE,
                              ![CutMembers[cut].doBoth] =
                                    IF ptrig[CutMembers[cut].doHigh] THEN TRUE ELSE @]
    /\ ptrig_call' = [ptrig_call EXCEPT !.nsetup = @ + 1]
    /\ UNCHANGED <<tpcvars, mvtxvars, jtrigvars, ifhvars, cprunervars, hprunervars, qavars>>

SetCutHighLow(cut, ptHigh, ptLow) ==
    /\ ptrig.n_evts = 0 /\ ptrig_call.nsetup < MaxSetup
    /\ ptrig' = [ptrig EXCEPT ![CutMembers[cut].high] = ptHigh,
                              ![CutMembers[cut].doHigh] = TRUE,
                              ![CutMembers[cut].low] = ptLow,
                              ![CutMembers[cut].doLow] = TRUE,
                              ![CutMembers[cut].doBoth] = TRUE]
    /\ ptrig_call' = [ptrig_call EXCEPT !.nsetup = @ + 1]
    /\ UNCHANGED <<tpcvars, mvtxvars, jtrigvars, ifhvars, cprunervars, hprunervars, qavars>>

AddParticle(particlePid) ==
    /\ ptrig.n_evts = 0 /\ ptrig_call.nsetup < MaxSetup
    /\ ptrig' = [ptrig EXCEPT !._theParticles = Append(@, particlePid)]
    /\ ptrig_call' = [ptrig_call EXCEPT !.nsetup = @ + 1]
    /\ UNCHANGED <<tpcvars, mvtxvars, jtrigvars, ifhvars, cprunervars, hprunervars, qavars>>

AddParticles(particles) ==
    /\ ptrig.n_evts = 0 /\ ptrig_call.nsetup < MaxSetup
    /\ ptrig' = [ptrig EXCEPT !._theParticles = @ \o particles]
    /\ ptrig_call' = [ptrig_call EXCEPT !.nsetup = @ + 1]
    /\ UNCHANGED <<tpcvars, mvtxvars, jtrigvars, ifhvars, cprunervars, hprunervars, qavars>>

ParticleTrigger_process_event(phg) ==
    /\ ptrig.n_evts < MaxCalls
    /\ \E call \in {HepMCParticleTrigger_process_event(ptrig, phg)} :
           /\ ptrig' = call.trig
           /\ ptrig_call' = [ptrig_call EXCEPT
                               !.ret = call.ret, !.phg = phg,
                               !.nok = IF call.ret = "EVENT_OK" THEN @ + 1 ELSE @]
    /\ UNCHANGED <<tpcvars, mvtxvars, jtrigvars, ifhvars, cprunervars, hprunervars, qavars>>

NextPTrig ==
    \/ \E cut \in DOMAIN CutMembers : SetCutHigh(cut, SetterArgs.high)
    \/ \E cut \in DOMAIN CutMembers : SetCutLow(cut, SetterArgs.low)
    \/ \E cut \in DOMAIN CutMembers : SetCutHighLow(cut, SetterArgs.high, SetterArgs.low)
    \/ \E particlePid \in TriggerPids : AddParticle(particlePid)
    \/ AddParticles(<<13, 11>>)
    \/ \E phg \in TriggerEventMaps : ParticleTrigger_process_event(phg)

SpecPTrig == InitPTrig /\ [][NextPTrig]_vars

(***************************************************************************)
(* InputFileHandler (offline/framework/fun4all).  The members m_FileList,  *)
(* m_Repeat and m_RunBeforeOpeningScript, and the operations AddFile,      *)
(* Repeat, SetOpeningScript, OpenNextFile and UpdateFileList.  fileopen is *)
(* virtual and RunBeforeOpening runs a script: what either returns is not  *)
(* the handler's to decide, so each is taken both ways.  OpenNextFile runs *)
(* one pass of its while loop per step.  ifh_call holds the call: where it *)
(* is (pc), what it returned (ret), the list when it began (list0), the    *)
(* passes it made (tried), and over the life of the handler how often each *)
(* file was opened (opened), the list and repeat count when the first call *)
(* began (first) and whether, since then, every fileopen succeeded and     *)
(* OpenNextFile and UpdateFileList took turns (cycle).                     *)
(***************************************************************************)
MaxFiles == 2      \* files added to the list
MaxOpened == 3     \* files opened over the life of the handler

FileNames == {"run1.root", "run2.root", "run3.root"}
RepeatArgs == {-1, 0, 1, 2}

RECURSIVE NOpened(_, _)
NOpened(opened, files) ==
    IF files = {} THEN 0
    ELSE LET f == CHOOSE x \in files : TRUE
         IN  opened[f] + NOpened(opened, files \ {f})

InputFileHandler ==
    [m_FileList |-> <<>>, m_FileListCopy |-> <<>>, m_Repeat |-> 0,
     m_RunBeforeOpeningScript |-> ""]

InitIfh ==
    /\ NoTracking /\ NoPTrig /\ NoJTrig /\ NoCPruner /\ NoHPruner /\ NoQA
    /\ ifh = InputFileHandler
    /\ ifh_call = [pc |-> "idle", ret |-> "none", list0 |-> <<>>, tried |-> <<>>,
                   opened |-> [f \in FileNames |-> 0], first |-> <<>>, cycle |-> TRUE]

\* the list is filled and the handler configured before files are opened
AddFile(filename) ==
    /\ ifh_call.first = <<>>
    /\ Len(ifh.m_FileListCopy) < MaxFiles
    /\ \A i \in DOMAIN ifh.m_FileListCopy : ifh.m_FileListCopy[i] # filename
    /\ ifh' = [ifh EXCEPT !.m_FileList = Append(@, filename),
                          !.m_FileListCopy = Append(@, filename)]
    /\ UNCHANGED <<ifh_call, tpcvars, mvtxvars, ptrigvars, jtrigvars, cprunervars,
                   hprunervars, qavars>>

Repeat(i) ==
    /\ ifh_call.first = <<>>
    /\ ifh' = [ifh EXCEPT !.m_Repeat = i]
    /\ UNCHANGED <<ifh_call, tpcvars, mvtxvars, ptrigvars, jtrigvars, cprunervars,
                   hprunervars, qavars>>

SetOpeningScript(script) ==
    /\ ifh_call.first = <<>>
    /\ ifh' = [ifh EXCEPT !.m_RunBeforeOpeningScript = script]
    /\ UNCHANGED <<ifh_call, tpcvars, mvtxvars, ptrigvars, jtrigvars, cprunervars,
                   hprunervars, qavars>>

\* OpenNextFile is called
OpenNextFile ==
    /\ ifh_call.pc # "loop"
    /\ NOpened(ifh_call.opened, FileNames) < MaxOpened
    /\ ifh_call' = [ifh_call EXCEPT
                      !.pc = "loop", !.ret = "none", !.list0 = ifh.m_FileList,
                      !.tried = <<>>,
                      !.first = IF @ = <<>>
                                THEN <<[files |-> ifh.m_FileList, repeat |-> ifh.m_Repeat]>>
                                ELSE @,
                      !.cycle = @ /\ ifh_call.pc = "idle"]
    /\ UNCHANGED <<ifh, tpcvars, mvtxvars, ptrigvars, jtrigvars, cprunervars,
                   hprunervars, qavars>>

\* what one pass does with the front file when the script returned
\* script_ret and fileopen returned open_ret; no pass when the list is empty
OpenNextFile_pass_NoPop(script_ret, open_ret) ==
    IF ifh.m_FileList = <<>>
    THEN [list |-> ifh.m_FileList, pc |-> "returned", ret |-> "FAILURE", tried |-> <<>>]
    ELSE [list |-> ifh.m_FileList,
          pc |-> IF open_ret # 0 THEN "loop" ELSE "returned",
          ret |-> IF open_ret # 0 THEN "none" ELSE "SUCCESS",
          tried |-> <<[file |-> Head(ifh.m_FileList), script_ret |-> script_ret,
                       open_ret |-> open_ret]>>]

OpenNextFile_pass(script_ret, open_ret) ==
    IF ifh.m_FileList = <<>>
    THEN [list |-> ifh.m_FileList, pc |-> "returned", ret |-> "FAILURE", tried |-> <<>>]
    ELSE [list |-> IF open_ret # 0 THEN Tail(ifh.m_FileList) ELSE ifh.m_FileList,
          pc |-> IF open_ret # 0 THEN "loop" ELSE "returned",
          ret |-> IF open_ret # 0 THEN "none" ELSE "SUCCESS",
          tried |-> <<[file |-> Head(ifh.m_FileList), script_ret |-> script_ret,
                       open_ret |-> open_ret]>>]

\* one test of the loop condition and, when the list is not empty, one pass
OpenNextFile_loop ==
    /\ ifh_call.pc = "loop"
    /\ \E script_ret \in (IF ifh.m_RunBeforeOpeningScript = "" THEN {0} ELSE {0, 1}),
          open_ret \in {0, 1} :
         \E pass \in {OpenNextFile_pass(script_ret, open_ret)} :
           /\ ifh' = [ifh EXCEPT !.m_FileList = pass.list]
           /\ ifh_call' = [ifh_call EXCEPT
                             !.pc = pass.pc, !.ret = pass.ret,
                             !.tried = @ \o pass.tried,
                             !.opened = IF pass.ret = "SUCCESS"
                                        THEN [@ EXCEPT ![Head(ifh.m_FileList)] = @ + 1]
                                        ELSE @,
                             !.cycle = @ /\ pass.ret # "none"]
    /\ UNCHANGED <<tpcvars, mvtxvars, ptrigvars, jtrigvars, cprunervars, hprunervars, qavars>>

UpdateFileList ==
    /\ ifh_call.pc # "loop"
    /\ ifh' = IF ifh.m_FileList # <<>>
              THEN [ifh EXCEPT
                      !.m_FileList = Tail(IF ifh.m_Repeat # 0 THEN Append(@, Head(@)) ELSE @),
                      !.m_Repeat = IF ifh.m_Repeat > 0 THEN @ - 1 ELSE @]
              ELSE ifh
    /\ ifh_call' = [ifh_call EXCEPT
                      !.pc = "idle",
                      !.cycle = @ /\ ifh_call.pc = "returned" /\ ifh_call.ret = "SUCCESS"]
    /\ UNCHANGED <<tpcvars, mvtxvars, ptrigvars, jtrigvars, cprunervars, hprunervars, qavars>>

NextIfh ==
    \/ \E filename \in FileNames : AddFile(filename)
    \/ \E i \in RepeatArgs : Repeat(i)
    \/ \E script \in {"", "stage.sh"} : SetOpeningScript(script)
    \/ OpenNextFile
    \/ OpenNextFile_loop
    \/ UpdateFileList

\* a call of OpenNextFile that has begun goes on running
SpecIfh == InitIfh /\ [][NextIfh]_vars /\ WF_vars(OpenNextFile_loop)

(***************************************************************************)
(* HepMCJetTrigger (generators/Herwig/HepMCTrigger).  Momenta are in units *)
(* of 0.1 GeV and pseudorapidities in units of 0.1, as for the particle    *)
(* trigger.  The anti-kt clustering is fastjet's: the jets it makes of the *)
(* particles handed to it are an attribute of the event (jets).  jtrig is  *)
(* the trigger object, jtrig_call the last call of process_event: what it  *)
(* returned (ret) and the event map it was given (phg).                    *)
(***************************************************************************)
HepMCJetTrigger(trigger_thresh, n_incom, up_lim) ==
    [threshold |-> trigger_thresh, goal_event_number |-> n_incom,
     set_event_limit |-> up_lim, n_evts |-> 0, n_good |-> 0]

PseudoJet(pt, eta) == [pt |-> pt, eta |-> eta]

findAllJets(e1) ==
    LET input == SelectSeq(e1.particles,
                           LAMBDA p : /\ ~p.end_vertex /\ p.status = 1
                                      /\ ~(Abs(p.pdg_id) >= 12 /\ Abs(p.pdg_id) <= 18))
    IN  IF input = <<>> THEN <<>> ELSE e1.jets

jetsAboveThreshold(t, jets) ==
    Len(SelectSeq(jets, LAMBDA j : ~(Abs(j.eta) > 11) /\ j.pt > t.threshold))

HepMCJetTrigger_isGoodEvent(t, e1) ==
    IF t.threshold = 0 THEN TRUE
    ELSE jetsAboveThreshold(t, findAllJets(e1)) > 0

\* the loop of process_event over the entries of the map from entry i on
RECURSIVE JetTrigger_events(_, _, _)
JetTrigger_events(t, events, i) ==
    IF i > Len(events) THEN [trig |-> t, ret |-> "EVENT_OK"]
    ELSE IF events[i].null THEN [trig |-> t, ret |-> "ABORTEVENT"]
    ELSE IF HepMCJetTrigger_isGoodEvent(t, events[i])
         THEN JetTrigger_events([t EXCEPT !.n_good = @ + 1], events, i + 1)
         ELSE [trig |-> t, ret |-> "ABORTEVENT"]

HepMCJetTrigger_process_event(t, phg) ==
    LET counted == [t EXCEPT !.n_evts = @ + 1]
    IN  IF t.set_event_limit /\ t.n_good >= t.goal_event_number
        THEN [trig |-> counted, ret |-> "ABORTEVENT"]
        ELSE IF ~phg.node THEN [trig |-> counted, ret |-> "ABORTEVENT"]
        ELSE JetTrigger_events(counted, phg.events, 1)

JetEvents ==
    LET pion == GenParticle(211, FALSE, 1, 150, 200, 0, 0)
        neutrino == GenParticle(12, FALSE, 1, 150, 200, 0, 0)
    IN  [hard     |-> GenEvent(<<pion>>, <<PseudoJet(250, 0)>>),
         soft     |-> GenEvent(<<pion>>, <<PseudoJet(50, 3)>>),
         forward  |-> GenEvent(<<pion>>, <<PseudoJet(250, -15)>>),
         neutrino |-> GenEvent(<<neutrino>>, <<PseudoJet(250, 0)>>)]

JetEventMaps ==
    {[node |-> FALSE, events |-> <<>>],
     [node |-> TRUE, events |-> <<>>],
     [node |-> TRUE, events |-> <<JetEvents.hard>>],
     [node |-> TRUE, events |-> <<JetEvents.hard, JetEvents.hard>>],
     [node |-> TRUE, events |-> <<JetEvents.hard, JetEvents.soft>>],
     [node |-> TRUE, events |-> <<JetEvents.forward>>],
     [node |-> TRUE, events |-> <<JetEvents.neutrino>>],
     [node |-> TRUE, events |-> <<JetEvents.hard, NullEvent>>]}

InitJTrig ==
    /\ NoTracking /\ NoPTrig /\ NoIfh /\ NoCPruner /\ NoHPruner /\ NoQA
    /\ \E trigger_thresh \in {0, 100}, n_incom \in {0, 1, 2}, up_lim \in BOOLEAN :
         jtrig = HepMCJetTrigger(trigger_thresh, n_incom, up_lim)
    /\ jtrig_call = [ret |-> "none", phg |-> <<>>]

JetTrigger_process_event(phg) ==
    /\ jtrig.n_evts < MaxCalls
    /\ \E call \in {HepMCJetTrigger_process_event(jtrig, phg)} :
         /\ jtrig' = call.trig
         /\ jtrig_call' = [ret |-> call.ret, phg |-> phg]
    /\ UNCHANGED <<tpcvars, mvtxvars, ptrigvars, ifhvars, cprunervars, hprunervars, qavars>>

NextJTrig == \E phg \in JetEventMaps : JetTrigger_process_event(phg)

SpecJTrig == InitJTrig /\ [][NextJTrig]_vars

(***************************************************************************)
(* MvtxClusterPruner (offline/packages/mvtx).  trkrclusters is the cluster *)
(* container TRKR_CLUSTER together with TRKR_CLUSTERHITASSOC: cluster key  *)
(* -> set of hit keys, for the clusters in the container.  A cluster key   *)
(* is its sensor (layer, stave, chip), strobe and index.  cpruner holds    *)
(* the members of the module; cpruner_call holds the last process_event:   *)
(* the container before it (before) and the pairs <<removed, kept>> it     *)
(* printed and acted on (removed).                                         *)
(***************************************************************************)
MvtxClusterPruner(use_strict_matching) ==
    [m_use_strict_matching |-> use_strict_matching,
     m_cluster_counter_total |-> 0, m_cluster_counter_deleted |-> 0]

\* the cluster keys there may be, and the hitset keys, in the order of the keys
ClusterKeys ==
    <<[sensor |-> 0, strobe |-> 0, index |-> 0], [sensor |-> 0, strobe |-> 1, index |-> 0],
      [sensor |-> 0, strobe |-> 1, index |-> 1], [sensor |-> 0, strobe |-> 2, index |-> 0],
      [sensor |-> 1, strobe |-> 1, index |-> 0]>>
\* the hit-key sets a cluster may have; none: no such cluster
ClusterHits == {{}, {1}, {2}, {2, 3}, {1, 2, 3}}

\* the keys of get_cluster_map(key), in order
get_cluster_map(clusters, sensor, strobe) ==
    SelectSeq(ClusterKeys, LAMBDA ckey : /\ ckey \in DOMAIN clusters
                                         /\ ckey.sensor = sensor /\ ckey.strobe = strobe)

\* the loop over the clusters of the second range, from the head of map2 on,
\* for the cluster ckey1 of the first range; hitkeys1 is the variable of
\* the first loop, which the second loop swaps with its own
RECURSIVE second_cluster_loop(_, _, _, _, _)
second_cluster_loop(ckey1, hitkeys1, map2, hits, st) ==
    IF map2 = <<>> THEN st
    ELSE LET ckey2 == Head(map2)
             hitkeys2 == hits[ckey2]
             swapped == Cardinality(hitkeys2) > Cardinality(hitkeys1)
             larger == IF swapped THEN hitkeys2 ELSE hitkeys1
             smaller == IF swapped THEN hitkeys1 ELSE hitkeys2
             remove(ckey, kept) ==
                 [st EXCEPT !.clusters = [c \in DOMAIN @ \ {ckey} |-> @[c]],
                            !.removed = @ \cup {<<ckey, kept>>},
                            !.pruner.m_cluster_counter_deleted = @ + 1]
         IN  IF st.pruner.m_use_strict_matching
             THEN IF hitkeys1 = hitkeys2
                  THEN remove(ckey2, ckey1)
                  ELSE second_cluster_loop(ckey1, hitkeys1, Tail(map2), hits, st)
             ELSE IF smaller \subseteq larger
                  THEN IF swapped
                       THEN remove(ckey1, ckey2)
                       ELSE second_cluster_loop(ckey1, larger, Tail(map2), hits,
                                                remove(ckey2, ckey1))
                  ELSE second_cluster_loop(ckey1, larger, Tail(map2), hits, st)

RECURSIVE first_cluster_loop(_, _, _, _)
first_cluster_loop(map1, map2, hits, st) ==
    IF map1 = <<>> THEN st
    ELSE first_cluster_loop(Tail(map1), map2, hits,
             second_cluster_loop(Head(map1), hits[Head(map1)], map2, hits,
                 [st EXCEPT !.pruner.m_cluster_counter_total = @ + 1]))

\* the loop over the hitset keys, which are those of the container when
\* process_event began
RECURSIVE hitsetkey_loop(_, _, _)
hitsetkey_loop(ckeys, hits, st) ==
    IF ckeys = <<>> THEN st
    ELSE LET key == Head(ckeys)
         IN  hitsetkey_loop(
                 SelectSeq(ckeys, LAMBDA c : c.sensor # key.sensor \/ c.strobe # key.strobe),
                 hits,
                 first_cluster_loop(get_cluster_map(st.clusters, key.sensor, key.strobe),
                                    get_cluster_map(st.clusters, key.sensor, key.strobe + 1),
                                    hits, st))

InitCPruner ==
    /\ NoTracking /\ NoPTrig /\ NoJTrig /\ NoIfh /\ NoHPruner /\ NoQA
    /\ \E use_strict_matching \in BOOLEAN : cpruner = MvtxClusterPruner(use_strict_matching)
    /\ \E hitkeys \in [DOMAIN ClusterKeys -> ClusterHits] :
         trkrclusters = [ckey \in {ClusterKeys[i] : i \in {j \in DOMAIN ClusterKeys :
                                                           hitkeys[j] # {}}} |->
                            hitkeys[CHOOSE i \in DOMAIN ClusterKeys : ClusterKeys[i] = ckey]]
    /\ cpruner_call = [ncalls |-> 0, before |-> <<>>, removed |-> {}]

ClusterPruner_process_event ==
    /\ cpruner_call.ncalls < MaxCalls
    /\ \E st \in {hitsetkey_loop(SelectSeq(ClusterKeys, LAMBDA c : c \in DOMAIN trkrclusters),
                                 trkrclusters,
                                 [clusters |-> trkrclusters, removed |-> {},
                                  pruner |-> cpruner])} :
         /\ trkrclusters' = st.clusters
         /\ cpruner' = st.pruner
         /\ cpruner_call' = [ncalls |-> cpruner_call.ncalls + 1, before |-> trkrclusters,
                             removed |-> st.removed]
    /\ UNCHANGED <<tpcvars, mvtxvars, ptrigvars, jtrigvars, ifhvars, hprunervars, qavars>>

SpecCPruner == InitCPruner /\ [][ClusterPruner_process_event]_vars

(***************************************************************************)
(* MvtxHitPruner (offline/packages/mvtx).  m_hits is the node TRKR_HITSET  *)
(* (node: whether it is there) with the MVTX hitsets of the container:     *)
(* hitset key -> set of hits, a hit being its hit key and what it holds    *)
(* (adc).  A hitset key is its sensor (layer, stave, chip) and strobe.     *)
(* hpruner_call holds the last process_event: the hitsets before it        *)
(* (before) and what it returned (ret).                                    *)
(***************************************************************************)
\* the hitset keys there may be, in the order of the keys
HitSetKeys ==
    <<[sensor |-> 0, strobe |-> 0], [sensor |-> 0, strobe |-> 1], [sensor |-> 0, strobe |-> 2],
      [sensor |-> 1, strobe |-> 0], [sensor |-> 1, strobe |-> 1]>>
\* the hits a hitset may have
TrkrHitSets ==
    {{[hitkey |-> k, adc |-> adc] : k \in keys} : keys \in SUBSET {1, 2}, adc \in {10, 20}}

\* the loop over the hits of a hitset: every hit is added to the bare hitset
copy_hits_NoGetHit(bare_hitset, hitset) == bare_hitset \cup hitset

\* the loop over the hits of a hitset: a hit whose key is not in the bare
\* hitset is copied to it
copy_hits(bare_hitset, hitset) ==
    bare_hitset \cup {old_hit \in hitset :
                        ~\E hit \in bare_hitset : hit.hitkey = old_hit.hitkey}

\* the loop over the hitsets with non-zero strobe of one bare hitset key
RECURSIVE strobe_loop(_, _, _)
strobe_loop(hitsets, bare_hitsetkey, hitsetkeys) ==
    IF hitsetkeys = <<>> THEN hitsets
    ELSE LET hitsetkey == Head(hitsetkeys)
         IN  strobe_loop(
                 [key \in DOMAIN hitsets \ {hitsetkey} |->
                     IF key = bare_hitsetkey
                     THEN copy_hits(hitsets[key], hitsets[hitsetkey])
                     ELSE hitsets[key]],
                 bare_hitsetkey, Tail(hitsetkeys))

\* the loop over the bare hitset keys; strobed: the hitset keys with
\* non-zero strobe found in the container, in order
RECURSIVE bare_hitset_loop(_, _)
bare_hitset_loop(hitsets, strobed) ==
    IF strobed = <<>> THEN hitsets
    ELSE LET bare_hitsetkey == [Head(strobed) EXCEPT !.strobe = 0]
             found == [key \in DOMAIN hitsets \cup {bare_hitsetkey} |->
                          IF key \in DOMAIN hitsets THEN hitsets[key] ELSE {}]
         IN  bare_hitset_loop(
                 strobe_loop(found, bare_hitsetkey,
                             SelectSeq(strobed, LAMBDA key : key.sensor = bare_hitsetkey.sensor)),
                 SelectSeq(strobed, LAMBDA key : key.sensor # bare_hitsetkey.sensor))

InitHPruner ==
    /\ NoTracking /\ NoPTrig /\ NoJTrig /\ NoIfh /\ NoCPruner /\ NoQA
    /\ \/ m_hits = [node |-> FALSE, hitsets |-> <<>>]
       \/ \E present \in SUBSET {HitSetKeys[i] : i \in DOMAIN HitSetKeys} :
            \E hitsets \in [present -> TrkrHitSets] :
               m_hits = [node |-> TRUE, hitsets |-> hitsets]
    /\ hpruner_call = [ncalls |-> 0, before |-> <<>>, ret |-> "none"]

HitPruner_process_event ==
    /\ hpruner_call.ncalls < MaxCalls
    /\ m_hits' =
         IF ~m_hits.node THEN m_hits
         ELSE [m_hits EXCEPT !.hitsets =
                 bare_hitset_loop(@, SelectSeq(HitSetKeys,
                                               LAMBDA key : key \in DOMAIN @ /\ key.strobe # 0))]
    /\ hpruner_call' = [ncalls |-> hpruner_call.ncalls + 1, before |-> m_hits.hitsets,
                        ret |-> IF m_hits.node THEN "EVENT_OK" ELSE "ABORTRUN"]
    /\ UNCHANGED <<tpcvars, mvtxvars, ptrigvars, jtrigvars, ifhvars, cprunervars, qavars>>

SpecHPruner == InitHPruner /\ [][HitPruner_process_event]_vars

(***************************************************************************)
(* StateClusterResidualsQA (offline/QA/Tracking).  qa holds m_pending, the *)
(* configurations, and m_histograms, one entry per triple of histograms    *)
(* (_x, _y, _z) in the order InitRun fetched them, each the set of fills   *)
(* it has received: the event, the track and the three residuals.          *)
(* Angles, pseudorapidities and momenta are whole numbers of the track's   *)
(* units.  qa_call holds the last process_event: the track map it was      *)
(* given (track_map) and the number of events so far (nevts).              *)
(***************************************************************************)
\* a configuration that selects every track
ResidualConfig(name) ==
    [name |-> name, charge |-> 0,
     min_mvtx_clusters |-> 0, max_mvtx_clusters |-> 4,
     min_intt_clusters |-> 0, max_intt_clusters |-> 4,
     min_tpc_clusters |-> 0, max_tpc_clusters |-> 48,
     phi_min |-> -4, phi_max |-> 4, eta_min |-> -2, eta_max |-> 2,
     pt_min |-> 0, pt_max |-> 100]

PendingConfigs(name) ==
    {ResidualConfig(name),
     [ResidualConfig(name) EXCEPT !.charge = 1],
     [ResidualConfig(name) EXCEPT !.charge = -1],
     [ResidualConfig(name) EXCEPT !.pt_min = 10, !.min_mvtx_clusters = 1]}

\* tracks: a positive one at low pt without MVTX state, a negative one at
\* high pt whose TPC state has no cluster, and a track that is not there
SvtxTracks ==
    LET state(path_length, trkr_id, x, cluster_x, cluster) ==
            [path_length |-> path_length, trkr_id |-> trkr_id, cluster |-> cluster,
             x |-> x, y |-> 2 * x, z |-> 3 * x,
             cluster_x |-> cluster_x, cluster_y |-> cluster_x, cluster_z |-> cluster_x]
    IN  {[null |-> FALSE, id |-> 1, positive_charge |-> TRUE, phi |-> 1, eta |-> 0, pt |-> 5,
          states |-> <<state(0, "none", 0, 0, FALSE), state(30, "tpc", 7, 5, TRUE)>>],
         [null |-> FALSE, id |-> 2, positive_charge |-> FALSE, phi |-> -2, eta |-> 1, pt |-> 20,
          states |-> <<state(0, "none", 0, 0, FALSE), state(3, "mvtx", 4, 5, TRUE),
                       state(40, "tpc", 9, 0, FALSE)>>],
         [null |-> TRUE, id |-> 3, positive_charge |-> FALSE, phi |-> 0, eta |-> 0, pt |-> 0,
          states |-> <<>>]}

\* the counter of the detector after the loop over the states of the track
counters(track, trkr_id) ==
    Len(SelectSeq(track.states, LAMBDA s : s.path_length # 0 /\ s.trkr_id = trkr_id))

\* the condition under which the residuals of the track are filled
selected(cfg, track) ==
    /\ cfg.min_mvtx_clusters <= counters(track, "mvtx")
    /\ cfg.max_mvtx_clusters >= counters(track, "mvtx")
    /\ cfg.min_intt_clusters <= counters(track, "intt")
    /\ cfg.max_intt_clusters >= counters(track, "intt")
    /\ cfg.min_tpc_clusters <= counters(track, "tpc")
    /\ cfg.max_tpc_clusters >= counters(track, "tpc")
    /\ cfg.phi_min <= track.phi /\ cfg.phi_max >= track.phi
    /\ cfg.eta_min <= track.eta /\ cfg.eta_max >= track.eta
    /\ cfg.pt_min <= track.pt /\ cfg.pt_max >= track.pt

\* what the loop over the states of a selected track fills
fills(evt, track) ==
    {[evt |-> evt, track |-> track.id,
      x |-> track.states[i].x - track.states[i].cluster_x,
      y |-> track.states[i].y - track.states[i].cluster_y,
      z |-> track.states[i].z - track.states[i].cluster_z] :
        i \in {j \in DOMAIN track.states :
                 track.states[j].path_length # 0 /\ track.states[j].cluster}}

\* the loop over m_pending for one track, from configuration i on, with the
\* histogram index at h
RECURSIVE config_loop(_, _, _, _, _, _)
config_loop(m_pending, i, h, evt, track, m_histograms) ==
    IF i > Len(m_pending) THEN m_histograms
    ELSE LET cfg == m_pending[i]
         IN  IF cfg.charge # 0 /\ (\/ cfg.charge < 0 /\ track.positive_charge
                                   \/ cfg.charge > 0 /\ ~track.positive_charge)
             THEN config_loop(m_pending, i + 1, h, evt, track, m_histograms)
             ELSE config_loop(m_pending, i + 1, h + 1, evt, track,
                              IF selected(cfg, track)
                              THEN [m_histograms EXCEPT ![h + 1] = @ \cup fills(evt, track)]
                              ELSE m_histograms)

RECURSIVE track_loop(_, _, _, _)
track_loop(m_pending, evt, track_map, m_histograms) ==
    IF track_map = <<>> THEN m_histograms
    ELSE track_loop(m_pending, evt, Tail(track_map),
                    IF Head(track_map).null THEN m_histograms
                    ELSE config_loop(m_pending, 1, 0, evt, Head(track_map), m_histograms))

InitQA ==
    /\ NoTracking /\ NoPTrig /\ NoJTrig /\ NoIfh /\ NoCPruner /\ NoHPruner
    /\ \E cfg1 \in PendingConfigs("first"), cfg2 \in PendingConfigs("second") :
         qa = [m_pending |-> <<cfg1, cfg2>>, m_histograms |-> <<>>]
    /\ qa_call = [nevts |-> 0, track_map |-> <<>>]

QA_InitRun ==
    /\ qa.m_histograms = <<>>
    /\ qa' = [qa EXCEPT !.m_histograms = [i \in DOMAIN qa.m_pending |-> {}]]
    /\ UNCHANGED <<qa_call, tpcvars, mvtxvars, ptrigvars, jtrigvars, ifhvars, cprunervars,
                   hprunervars>>

QA_process_event(track_map) ==
    /\ qa.m_histograms # <<>>
    /\ qa_call.nevts < MaxCalls
    /\ qa' = [qa EXCEPT !.m_histograms =
                 track_loop(qa.m_pending, qa_call.nevts + 1, track_map, @)]
    /\ qa_call' = [nevts |-> qa_call.nevts + 1, track_map |-> track_map]
    /\ UNCHANGED <<tpcvars, mvtxvars, ptrigvars, jtrigvars, ifhvars, cprunervars, hprunervars>>

NextQA ==
    \/ QA_InitRun
    \/ \E t1 \in SvtxTracks : QA_process_event(<<t1>>)
    \/ \E t1 \in SvtxTracks, t2 \in SvtxTracks : QA_process_event(<<t1, t2>>)

SpecQA == InitQA /\ [][NextQA]_vars

(***************************************************************************)
(* Vocabulary of the properties of processTrack.                           *)
(***************************************************************************)
Returned == pc = "returned"

IsTpcHit(h) == h.key.trkrId = "tpc"

TpcIndices(in) == {i \in DOMAIN in : IsTpcHit(in[i])}

\* the positions of global_moved that carry the key k
OutWithKey(k) == {j \in DOMAIN global_moved : global_moved[j].key = k}

\* the position global_moved gives to the key k (k occurs in it)
OutPos(k) == global_moved[CHOOSE j \in OutWithKey(k) : TRUE].pos

TransverseRadius(h) == sqrt(h.pos[1] * h.pos[1] + h.pos[2] * h.pos[2])

TableRadius(h) == layer_radius[h.key.layer - 7]

\* TrackFitUtils finds no real intersection of the fitted circle with radius r
NoIntersection(r) == circle_circle_intersection(r, fit.R, fit.X0, fit.Y0).nan

Projected(h) ==
    get_circle_circle_intersection(TableRadius(h), fit.R, fit.X0, fit.Y0,
                                   h.pos[1], h.pos[2], 0, 0)

Start(h) ==
    get_circle_circle_intersection(TransverseRadius(h), fit.R, fit.X0, fit.Y0,
                                   h.pos[1], h.pos[2], 0, 0)

Within5cm(h, x, y) == Abs(h.pos[1] - x) < 400 /\ Abs(h.pos[2] - y) < 400

\* C1: a list with fewer than 3 TPC hits is returned as it came: same length,
\* same order, same key and position in every entry.
C1_PassThrough ==
    (Returned /\ Cardinality(TpcIndices(global_in)) < 3)
        => /\ Len(global_moved) = Len(global_in)
           /\ \A i \in DOMAIN global_in :
                  /\ global_moved[i].key = global_in[i].key
                  /\ global_moved[i].pos = global_in[i].pos

\* a returned list of 4 hits with 2 TPC hits between and after silicon hits
C1_Witness ==
    /\ Returned
    /\ Len(global_in) = 4
    /\ Cardinality(TpcIndices(global_in)) = 2
    /\ IsTpcHit(global_in[1]) /\ ~IsTpcHit(global_in[2])

\* C2: every non-TPC hit of the input is in the output exactly once, with
\* its key and position unchanged, whatever happens to the TPC hits.
C2_RegionPreservation ==
    Returned =>
        \A i \in DOMAIN global_in :
            ~IsTpcHit(global_in[i]) =>
                /\ Cardinality(OutWithKey(global_in[i].key)) = 1
                /\ OutPos(global_in[i].key) = global_in[i].pos

\* 3 TPC hits and a silicon hit behind them, and a TPC hit was dropped
C2_Witness ==
    /\ Returned
    /\ Cardinality(TpcIndices(global_in)) = 3
    /\ Len(global_in) = 4 /\ ~IsTpcHit(global_in[4])
    /\ \E i \in TpcIndices(global_in) : OutWithKey(global_in[i].key) = {}
    /\ \E i \in TpcIndices(global_in) : OutWithKey(global_in[i].key) # {}

\* C3: with at least 3 TPC hits the output is the non-TPC hits plus one entry
\* per TPC hit that was not dropped: every output key is the key of exactly
\* one input entry, no key occurs twice, and the length is the input length
\* minus the number of TPC hits that are absent.
C3_OutputComposition ==
    (Returned /\ Cardinality(TpcIndices(global_in)) >= 3)
        => /\ \A j \in DOMAIN global_moved :
                  /\ Cardinality({i \in DOMAIN global_in :
                                     global_in[i].key = global_moved[j].key}) = 1
                  /\ OutWithKey(global_moved[j].key) = {j}
           /\ \A i \in DOMAIN global_in :
                  ~IsTpcHit(global_in[i]) => OutWithKey(global_in[i].key) # {}
           /\ Len(global_moved) = Len(global_in)
                  - Cardinality({i \in TpcIndices(global_in) :
                                    OutWithKey(global_in[i].key) = {}})

\* 3 TPC hits, one dropped and two moved, and a silicon hit
C3_Witness ==
    /\ Returned
    /\ Cardinality(TpcIndices(global_in)) = 3
    /\ Len(global_in) = 4
    /\ Len(global_moved) = 3

\* C4: with at least 3 TPC hits, a TPC hit is absent from the output exactly
\* when the fitted circle has no real intersection with the hit's layer
\* radius or with the hit's own transverse radius; every other TPC hit is in
\* the output.
C4_DegeneracySkip ==
    (Returned /\ Cardinality(TpcIndices(global_in)) >= 3)
        => \A i \in TpcIndices(global_in) :
              (OutWithKey(global_in[i].key) = {})
                  <=> \/ NoIntersection(TableRadius(global_in[i]))
                      \/ NoIntersection(TransverseRadius(global_in[i]))

\* the first TPC hit fails at its layer radius, the second at its own radius,
\* and the third one, behind them, is still moved
C4_Witness ==
    /\ Returned
    /\ Len(global_in) = 3 /\ TpcIndices(global_in) = {1, 2, 3}
    /\ NoIntersection(TableRadius(global_in[1]))
    /\ ~NoIntersection(TableRadius(global_in[2]))
    /\ NoIntersection(TransverseRadius(global_in[2]))
    /\ OutWithKey(global_in[3].key) # {}

\* C5: a TPC hit that is not dropped is moved by the difference of the two
\* selected intersections: new = original - (start - projected) in x, y, z,
\* projected taken at the table radius of the layer and start at the hit's
\* own transverse radius, z on the fitted line z = B + A*radius.
C5_DisplacementRule ==
    (Returned /\ Cardinality(TpcIndices(global_in)) >= 3)
        => \A i \in TpcIndices(global_in) :
              LET h == global_in[i]
              IN  OutWithKey(h.key) # {} =>
                    OutPos(h.key) =
                      << h.pos[1] - (Start(h).x - Projected(h).x),
                         h.pos[2] - (Start(h).y - Projected(h).y),
                         h.pos[3] - (LineAt(fit.A, fit.B, TransverseRadius(h))
                                     - LineAt(fit.A, fit.B, TableRadius(h))) >>

\* a moved hit that ends neither where it was nor on the projected point
C5_Witness ==
    /\ Returned
    /\ Cardinality(TpcIndices(global_in)) >= 3
    /\ \E i \in TpcIndices(global_in) :
          LET h == global_in[i]
          IN  /\ OutWithKey(h.key) # {}
              /\ OutPos(h.key) # h.pos
              /\ OutPos(h.key)[1] # Projected(h).x
              /\ OutPos(h.key)[3] # h.pos[3]

WithinCase(i) ==
    LET h  == global_in[i]
        c  == circle_circle_intersection(TableRadius(h), fit.R, fit.X0, fit.Y0)
        pw == Within5cm(h, c.xplus, c.yplus)
        mw == Within5cm(h, c.xminus, c.yminus)
    IN  IF c.nan THEN "nan"
        ELSE IF pw /\ mw THEN "both"
        ELSE IF pw THEN "plus"
        ELSE IF mw THEN "minus"
        ELSE "neither"

C7_IdentityOnTargetRadius ==
    (Returned /\ Cardinality(TpcIndices(global_in)) >= 3)
        => \A i \in TpcIndices(global_in) :
              LET h == global_in[i]
              IN  (TransverseRadius(h) = TableRadius(h) /\ OutWithKey(h.key) # {})
                    => OutPos(h.key) = h.pos

\* such a hit is in the output, next to a hit that was moved, on a fitted
\* line with a slope
C7_Witness ==
    /\ Returned
    /\ Cardinality(TpcIndices(global_in)) >= 3
    /\ fit.A # 0
    /\ \E i \in TpcIndices(global_in) :
          /\ TransverseRadius(global_in[i]) = TableRadius(global_in[i])
          /\ global_in[i].pos[3] # 0
          /\ OutWithKey(global_in[i].key) # {}
    /\ \E i \in TpcIndices(global_in) :
          /\ OutWithKey(global_in[i].key) # {}
          /\ OutPos(global_in[i].key) # global_in[i].pos

(***************************************************************************)
(* Vocabulary of the properties of the pixel operations.                   *)
(***************************************************************************)
ValidRows == 0 .. (NRows - 1)
ValidCols == 0 .. (NCols - 1)
ValidIndices == 0 .. (NRows * NCols - 1)

HalfRows == (PitchRow * NRows) \div 2
HalfCols == (PitchCol * NCols) \div 2

\* the edge snap of a coordinate c against the half size half
Snapped(c, half) ==
    IF Abs(c) > half - 50 /\ Abs(c) < half + 50
    THEN (IF c < 0 THEN 50 - half ELSE half - 50)
    ELSE c

\* C8: for every row and column of the grid, the vector returned by
\* get_local_coords_from_pixel(row, col), handed to
\* get_pixel_from_local_coords, gives valid = true and the same row and
\* column, and the edge snap leaves that vector alone.
C8_PixelRoundTrip ==
    ( /\ mvtx.op = "get_pixel_from_local_coords"
      /\ mvtx.from # <<>>
      /\ mvtx.from[1] \in ValidRows
      /\ mvtx.from[2] \in ValidCols )
        => /\ mvtx.res.valid = TRUE
           /\ mvtx.res.row = mvtx.from[1]
           /\ mvtx.res.col = mvtx.from[2]
           /\ Snapped(mvtx.arg[1], HalfRows) = mvtx.arg[1]
           /\ Snapped(mvtx.arg[3], HalfCols) = mvtx.arg[3]

\* the round trip of the corner pixel (last row, first column) has been made
C8_Witness ==
    /\ mvtx.op = "get_pixel_from_local_coords"
    /\ mvtx.from = <<NRows - 1, 0>>
    /\ mvtx.res.valid

C10_ValidityFlag ==
    mvtx.op = "get_pixel_from_local_coords" =>
        LET x == Snapped(mvtx.arg[1], HalfRows) + 581280
            z == Snapped(mvtx.arg[3], HalfCols) + 0
            inside == /\ TopEdge - PitchRow * NRows < x /\ x < TopEdge
                      /\ -HalfCols < z /\ z < HalfCols
            outside == \/ x < TopEdge - PitchRow * NRows \/ x > TopEdge
                       \/ z < -HalfCols \/ z > HalfCols
        IN  /\ mvtx.res = localToDetector(x, z)
            /\ inside \/ outside
            /\ mvtx.res.valid = FALSE <=> outside

\* a point 50 nm (5e-6 cm) beyond the column edge, not snapped, is invalid
C10_Witness ==
    /\ mvtx.op = "get_pixel_from_local_coords"
    /\ mvtx.arg = <<0, 0, HalfCols + 50>>
    /\ mvtx.res.valid = FALSE

\* C11: when get_pixel_from_local_coords reports a valid mapping the row lies
\* in 0..NRows-1 and the column in 0..NCols-1, and the linear index the
\* one-argument overload returns for such a point lies in 0..NRows*NCols-1;
\* for a point without a valid mapping the overload still returns, with an
\* index built from the row and column the conversion left.
C11_ValidIndexRange ==
    /\ mvtx.op = "get_pixel_from_local_coords" =>
          (mvtx.res.valid => (mvtx.res.row \in ValidRows /\ mvtx.res.col \in ValidCols))
    /\ mvtx.op = "get_pixel_from_local_coords_index" =>
          LET px == get_pixel_from_local_coords(mvtx.arg)
          IN  /\ px.valid => (mvtx.res >= 0 /\ mvtx.res < NRows * NCols)
              /\ ~px.valid => mvtx.res = px.row + px.col * NRows

\* a point of the last row and last column got the last index of the grid
C11_Witness ==
    /\ mvtx.op = "get_pixel_from_local_coords_index"
    /\ get_pixel_from_local_coords(mvtx.arg).valid
    /\ get_pixel_from_local_coords(mvtx.arg).row = NRows - 1
    /\ mvtx.res = NRows * NCols - 1

\* the coordinate lies 10 nm (1e-6 cm) beyond the edge at distance half
JustOutside(c, half) == Abs(c) = half + 10

\* the point of the edge next to c
OnEdge(c, half) == IF c < 0 THEN -half ELSE half

\* C12: get_pixel_from_local_coords replaces x (against half the row size)
\* and z (against half the column size) when they are closer than 5e-6 cm to
\* the edge by sign * (half - 5e-6 cm) and leaves them alone otherwise, then
\* moves to the chip frame; so a point 1e-6 cm beyond an edge gets the row,
\* column and validity of the point on that edge, and adjusting an adjusted
\* coordinate changes nothing.
C12_EdgeSnap ==
    mvtx.op = "get_pixel_from_local_coords" =>
        LET x == mvtx.arg[1]
            z == mvtx.arg[3]
            inX == Abs(x) > HalfRows - 50 /\ Abs(x) < HalfRows + 50
            inZ == Abs(z) > HalfCols - 50 /\ Abs(z) < HalfCols + 50
            sx == IF inX THEN (IF x < 0 THEN 50 - HalfRows ELSE HalfRows - 50) ELSE x
            sz == IF inZ THEN (IF z < 0 THEN 50 - HalfCols ELSE HalfCols - 50) ELSE z
        IN  /\ mvtx.res = localToDetector(sx + loc_sensor_in_chip[1], sz + loc_sensor_in_chip[3])
            /\ JustOutside(x, HalfRows) =>
                  mvtx.res = get_pixel_from_local_coords(<<OnEdge(x, HalfRows), mvtx.arg[2], z>>)
            /\ JustOutside(z, HalfCols) =>
                  mvtx.res = get_pixel_from_local_coords(<<x, mvtx.arg[2], OnEdge(z, HalfCols)>>)
            /\ EdgeAdjusted(EdgeAdjusted(x, ActiveMatrixSizeRows), ActiveMatrixSizeRows)
                  = EdgeAdjusted(x, ActiveMatrixSizeRows)
            /\ EdgeAdjusted(EdgeAdjusted(z, ActiveMatrixSizeCols), ActiveMatrixSizeCols)
                  = EdgeAdjusted(z, ActiveMatrixSizeCols)

\* a point 1e-6 cm beyond the negative x edge and beyond the positive z edge
\* was mapped to the pixel of the last row and last column
C12_Witness ==
    /\ mvtx.op = "get_pixel_from_local_coords"
    /\ mvtx.arg[1] = -(HalfRows + 10)
    /\ mvtx.arg[3] = HalfCols + 10
    /\ mvtx.res = [valid |-> TRUE, row |-> NRows - 1, col |-> NCols - 1]

\* C13: get_local_coords_from_pixel(row, col) returns a vector for every row
\* and column: the vector the detector conversion left, minus the
\* sensor-to-chip offset, on the success path and, for a row or column out of
\* range, where the conversion reports failure, on the failure path alike.
C13_NonFatalPixelToLocal ==
    mvtx.op = "get_local_coords_from_pixel" =>
        LET conv == detectorToLocal(mvtx.arg[1], mvtx.arg[2])
        IN  /\ Len(mvtx.res) = 3
            /\ mvtx.res = << conv.loc[1] - 581280, conv.loc[2] + 5000, conv.loc[3] - 0 >>
            /\ (mvtx.arg[1] \notin ValidRows \/ mvtx.arg[2] \notin ValidCols) <=> ~conv.ok

\* a call with the row below and the column above the grid has returned
C13_Witness ==
    /\ mvtx.op = "get_local_coords_from_pixel"
    /\ mvtx.arg = <<-1, NCols>>
    /\ ~detectorToLocal(-1, NCols).ok
    /\ Len(mvtx.res) = 3

(***************************************************************************)
(* Vocabulary of the properties of get_sensor_indices_from_world_coords    *)
(* and of the object's members.                                            *)
(***************************************************************************)
SensorIndicesReturned == mvtx.op = "get_sensor_indices_from_world_coords"

\* the unsigned int u (two 16-bit halves) has the value of the integer v
UIntIs(u, v) == u.hi = 0 /\ u.lo = v

\* the integer round(z / chip_pitch_z) + 4 of the world point of the call, with
\* chip_pitch_z = (z of chip slot 8 - z of chip slot 0) / 8
ChipIndexOf(world) ==
    round(world[3], (geom.inner_loc_chip_in_module[8][3]
                       - geom.inner_loc_chip_in_module[0][3]) \div 8) + 4

\* the azimuth of the world point in [0, 2 pi)
Azimuth(world) == atan2(world[2], world[1]) % (2 * M_PI)

StaveIndexOf(world) == round(Azimuth(world) - geom.stave_phi_0, geom.stave_phi_step)

\* C14: for every world point get_sensor_indices_from_world_coords returns as
\* chip_index the integer round(world.z / chip_pitch_z) + 4, chip_pitch_z
\* being 3.015 cm; at the nominal z of chip slot k it is k; the integer is
\* returned as it is, also below 0 and above 8.
C14_ChipIndex ==
    SensorIndicesReturned =>
        /\ (geom.inner_loc_chip_in_module[8][3] - geom.inner_loc_chip_in_module[0][3]) \div 8
              = 30150000
        /\ UIntIs(mvtx.res.chip_index, ChipIndexOf(mvtx.arg))
        /\ \A k \in 0..8 :
              mvtx.arg[3] = geom.inner_loc_chip_in_module[k][3]
                  => UIntIs(mvtx.res.chip_index, k)

\* C15: for every world point get_sensor_indices_from_world_coords returns as
\* stave_index the integer round((phi - stave_phi_0) / stave_phi_step), phi
\* being the azimuth of the point in [0, 2 pi); the integer is returned as it
\* is, neither clamped nor reduced modulo the number of staves.
C15_StaveIndex ==
    SensorIndicesReturned =>
        /\ 0 <= Azimuth(mvtx.arg) /\ Azimuth(mvtx.arg) < 2 * M_PI
        /\ UIntIs(mvtx.res.stave_index, StaveIndexOf(mvtx.arg))

\* the members that describe the sensor geometry
SensorGeometry ==
    << geom.layer, geom.N_staves, geom.layer_radius, geom.stave_phi_step,
       geom.stave_phi_tilt, geom.stave_phi_0, geom.loc_sensor_in_chip,
       geom.inner_loc_chip_in_module >>

\* C20: once the object is constructed no public operation changes the layer
\* index, the number of staves, the nominal radius, the angular step, the
\* tilt, the phi offset, the sensor-to-chip offset or the 9 chip positions:
\* every step leaves them as they are.
C20_ImmutableGeometry == [][SensorGeometry' = SensorGeometry]_vars

\* C16: when the constructor has run the table has 48 entries, entry
\* 16*k + i is region_min_k + (i + 0.5) * (region_max_k - region_min_k) / 16
\* for the boundaries 30.0, 40.0, 60.0, 76.4 cm, entry 0 is 30.3125 cm and
\* entry 15 is 39.6875 cm (2425 and 3175 eightieths of a cm), and the
\* entries do not decrease over 0..47.
C16_DefaultLayerRadiusTable ==
    cellgeo = <<>> =>
        LET bound == <<2400, 3200, 4800, 6112>>
        IN  /\ DOMAIN layer_radius = 0..47
            /\ \A k \in 0..2 : \A i \in 0..15 :
                  32 * layer_radius[16 * k + i]
                      = 32 * bound[k + 1] + (2 * i + 1) * (bound[k + 2] - bound[k + 1])
            /\ layer_radius[0] = 2425
            /\ layer_radius[15] = 3175
            /\ \A i \in 0..46 : layer_radius[i] <= layer_radius[i + 1]

\* a track was moved with the table the constructor made
C16_Witness ==
    /\ cellgeo = <<>>
    /\ pc = "returned"
    /\ global_moved # global_in
    /\ layer_radius[47] = 6071

\* C17: after initialize_geometry, whatever container was supplied, each of
\* the 48 entries of the table is the radius of the corresponding layer of
\* the container, in layer order, so that no radius of the constructor
\* remains, and nothing was written outside the entries 0..47.
C17_ExternalGeometryWholesale ==
    cellgeo # <<>> =>
        /\ \A i \in 0..47 :
              /\ i + 1 \in DOMAIN cellgeo
              /\ layer_radius[i] = cellgeo[i + 1]
        /\ overrun = <<>>
        /\ pc # "terminated"

\* C19: in a series of processTrack calls on one instance every call leaves
\* the layer radius table as it is and returns what the same call returns
\* on an instance whose scratch members still hold their initial zeros: the
\* result is a function of the hit list (with its fit) and the table, and
\* what earlier calls left in the scratch members, also after a failed
\* intersection, has no part in it.
C19_StatelessPerCall ==
    [][ncalls' = ncalls + 1 =>
           /\ layer_radius' = layer_radius
           /\ global_moved' = processTrackCall(global_in', fit', layer_radius, ZeroScratch).moved
      ]_vars

\* a later call of a series began with a start and a projected point left
\* by an earlier call in the scratch members, dropped its first hit and
\* moved a later one
C19_Witness ==
    /\ ncalls >= 2
    /\ pc = "returned"
    /\ <<scratch_in.x_start, scratch_in.y_start>> # <<0, 0>>
    /\ <<scratch_in.x_start, scratch_in.y_start>> # <<scratch_in.x_proj, scratch_in.y_proj>>
    /\ OutWithKey(global_in[1].key) = {}
    /\ \E i \in DOMAIN global_in :
          /\ OutWithKey(global_in[i].key) # {}
          /\ OutPos(global_in[i].key) # global_in[i].pos

\* what the call of a thread returns when it runs alone on the instance
Alone(th) == processTrackCall(th.in, th.f, layer_radius, ZeroScratch).moved

\* C18: when two processTrack calls for independent tracks run side by side
\* on one instance, each returns, under every interleaving of their steps,
\* what it returns when it runs alone.
C18_ConcurrentCalls ==
    \A t \in DOMAIN thr : thr[t].at = "done" => thr[t].result = Alone(thr[t])

\* C21: verbosity is observability-only.  Two processTrack calls with the
\* same input list (and fit) on the same layer radius table return identical
\* output whatever the verbosity level of each call was, and a step that
\* changes the verbosity level changes nothing else.
C21_VerbosityObservabilityOnly ==
    [][ /\ verbosity' # verbosity =>
              UNCHANGED <<layer_radius, scratch, pc, global_in, fit, global_moved,
                          cellgeo, overrun, ncalls, scratch_in, calls, thr>>
        /\ \A c \in calls', d \in calls' :
              (c.in = d.in /\ c.f = d.f) => c.moved = d.moved
      ]_vars

\* the same track was processed silently and with full diagnostics: the
\* second call wrote to std::cout, the first did not, and a hit was moved
C21_Witness ==
    \E c \in calls, d \in calls :
        /\ c.in = d.in /\ c.f = d.f
        /\ c.verbosity = 0 /\ d.verbosity > 2
        /\ c.cout = 0 /\ d.cout > 0
        /\ \E k \in DOMAIN d.moved, m \in DOMAIN d.in :
              /\ d.moved[k].key = d.in[m].key
              /\ d.moved[k].pos # d.in[m].pos

(***************************************************************************)
(* Vocabulary of the properties of the HepMC triggers.                     *)
(***************************************************************************)
\* the events of the map the last process_event call was given
LastTriggerEvents ==
    {ptrig_call.phg.events[i].particles :
        i \in {j \in DOMAIN ptrig_call.phg.events : ~ptrig_call.phg.events[j].null}}

InWindow(doHigh, doLow, doBoth, v, high, low) ==
    /\ (doHigh \/ doBoth) => v <= high
    /\ (doLow \/ doBoth) => v >= low

\* the particle is stable where only stable particles count, and lies inside
\* every enabled kinematic cut
Selected(t, part) ==
    /\ t.m_doStableParticleOnly => (~part.end_vertex /\ part.status = 1)
    /\ InWindow(t._doEtaHighCut, t._doEtaLowCut, t._doBothEtaCut,
                part.eta, t._theEtaHigh, t._theEtaLow)
    /\ InWindow(t._doAbsEtaHighCut, t._doAbsEtaLowCut, t._doBothAbsEtaCut,
                Abs(part.eta), t._theEtaHigh, t._theEtaLow)
    /\ InWindow(t._doPtHighCut, t._doPtLowCut, t._doBothPtCut,
                sqrt(square(part.px) + square(part.py)), t._thePtHigh, t._thePtLow)
    /\ InWindow(t._doPHighCut, t._doPLowCut, t._doBothPCut,
                sqrt(square(part.px) + square(part.py) + square(part.pz)),
                t._thePHigh, t._thePLow)
    /\ InWindow(t._doPzHighCut, t._doPzLowCut, t._doBothPzCut,
                part.pz, t._thePzHigh, t._thePzLow)

\* C22: with the event limit enabled and goal_event_number = N >= 0, at
\* most N process_event calls of a HepMCParticleTrigger return EVENT_OK
\* (so that after N accepted events every later call returns ABORTEVENT).
C22_AcceptedEventLimit ==
    (ptrig.set_event_limit /\ ptrig.goal_event_number >= 0)
        => ptrig_call.nok <= ptrig.goal_event_number

\* C23: isGoodEvent is true exactly when, for every PDG id added with
\* AddParticle or AddParticles, the event holds a particle of that absolute
\* PDG id (signs ignored on both sides) that passes the stable-particle
\* filter and every enabled kinematic cut; with no id added it is true for
\* every event.
C23_IsGoodEvent ==
    ptrig_call.ret # "none" =>
        \A e1 \in LastTriggerEvents :
            HepMCParticleTrigger_isGoodEvent(ptrig, e1)
                <=> \A i \in DOMAIN ptrig._theParticles :
                        \E k \in DOMAIN e1 :
                            /\ Abs(e1[k].pdg_id) = Abs(ptrig._theParticles[i])
                            /\ Selected(ptrig, e1[k])

\* an event with an electron and a muon was accepted by a trigger on
\* antimuons (-13) and electrons, and an event with a muon alone was not
C23_Witness ==
    /\ ptrig._theParticles = <<-13, 11>>
    /\ ptrig_call.ret = "ABORTEVENT"
    /\ ptrig.n_good = 1
    /\ ptrig_call.phg.events = <<TriggerEvents.muon>>
    /\ ~HepMCParticleTrigger_isGoodEvent(ptrig, TriggerEvents.muon.particles)
    /\ HepMCParticleTrigger_isGoodEvent(ptrig, TriggerEvents.dilepton.particles)

(***************************************************************************)
(* Vocabulary of the properties of InputFileHandler.                       *)
(***************************************************************************)
\* the passes of the call whose fileopen failed
FailedPasses == {i \in DOMAIN ifh_call.tried : ifh_call.tried[i].open_ret # 0}

\* the call of OpenNextFile has returned what its passes warrant
OpenNextFileResult ==
    LET tried == ifh_call.tried
        list0 == ifh_call.list0
        n == Len(tried)
    IN  /\ ifh_call.ret \in {"SUCCESS", "FAILURE"}
        /\ n <= Len(list0)
        /\ \A i \in 1..n : tried[i].file = list0[i]
        /\ \A i \in 1..n : i < n => tried[i].open_ret # 0
        /\ ifh.m_FileList = SubSeq(list0, Cardinality(FailedPasses) + 1, Len(list0))
        /\ ifh_call.ret = "SUCCESS" <=> (n >= 1 /\ tried[n].open_ret = 0)
        /\ ifh_call.ret = "SUCCESS" => Head(ifh.m_FileList) = tried[n].file
        /\ ifh_call.ret = "FAILURE" <=> (ifh.m_FileList = <<>> /\ FailedPasses = 1..n)
        /\ ifh_call.ret = "FAILURE" => n = Len(list0)

\* C24: a call of OpenNextFile always returns; it has then tried the files
\* of the list from the front in order, whatever the pre-opening script
\* returned for them, has removed each file whose fileopen failed, and has
\* returned SUCCESS at the first file that opened, leaving it at the front,
\* and FAILURE exactly when the list was emptied without a file opening.
C24_OpenNextFile ==
    /\ [](ifh_call.pc = "returned" => OpenNextFileResult)
    /\ (ifh_call.pc = "loop") ~> (ifh_call.pc = "returned")

\* a call that dropped a file that would not open and opened the next one,
\* the script having failed for both
C24_Witness ==
    /\ ifh_call.pc = "returned" /\ ifh_call.ret = "SUCCESS"
    /\ Len(ifh_call.tried) = 2
    /\ ifh_call.tried[1].open_ret # 0 /\ ifh_call.tried[1].script_ret # 0
    /\ ifh_call.tried[2].open_ret = 0 /\ ifh_call.tried[2].script_ret # 0
    /\ ifh.m_FileList = <<ifh_call.list0[2]>>

\* C25: with Repeat(n), n >= 0, set on a list of k >= 1 files and every
\* fileopen succeeding, OpenNextFile and UpdateFileList in turn have opened
\* each of the k files exactly n + 1 times when the list is empty.
C25_RepeatOpensEachFile ==
    (/\ ifh_call.first # <<>> /\ ifh_call.cycle
     /\ ifh_call.pc = "idle" /\ ifh.m_FileList = <<>>)
    => LET files == ifh_call.first[1].files
           n == ifh_call.first[1].repeat
       IN  (n >= 0 /\ Len(files) >= 1)
           => \A i \in DOMAIN files : ifh_call.opened[files[i]] = n + 1

\* C26: a call of HepMCJetTrigger::process_event that returns EVENT_OK
\* increments n_good exactly once and one that returns ABORTEVENT leaves it
\* alone; with the event limit enabled n_good never exceeds
\* goal_event_number.
C26_JetTriggerCountsAccepted ==
    [][ jtrig'.n_evts # jtrig.n_evts =>
          /\ jtrig_call'.ret = "EVENT_OK" => jtrig'.n_good = jtrig.n_good + 1
          /\ jtrig_call'.ret = "ABORTEVENT" => jtrig'.n_good = jtrig.n_good
          /\ jtrig'.set_event_limit => jtrig'.n_good <= jtrig'.goal_event_number
      ]_vars

\* the trigger as its constructor left it
NewTrigger ==
    HepMCParticleTrigger(ptrig.threshold, ptrig.goal_event_number, ptrig.set_event_limit,
                         ptrig.m_doStableParticleOnly)

\* C27: after SetAbsEtaHighLow(h, l), 0 <= l <= h, on a newly constructed
\* HepMCParticleTrigger, getParticles counts a particle that passes all
\* other cuts exactly when l <= |eta| <= h, and the limits of the signed-eta
\* selection are those the constructor set.
C27_AbsEtaWindow ==
    (ptrig_call.ret # "none" /\ ptrig_call.nsetup = 1 /\ ptrig._doBothAbsEtaCut)
    => /\ \A e1 \in LastTriggerEvents : \A k \in DOMAIN e1 :
            PassesCuts(NewTrigger, e1[k])
                => (PassesCuts(ptrig, e1[k])
                        <=> (SetterArgs.low <= Abs(e1[k].eta)
                             /\ Abs(e1[k].eta) <= SetterArgs.high))
       /\ \A e1 \in LastTriggerEvents : \A k \in DOMAIN e1 :
            InWindow(ptrig._doEtaHighCut, ptrig._doEtaLowCut, ptrig._doBothEtaCut,
                     e1[k].eta, ptrig._theEtaHigh, ptrig._theEtaLow)
                <=> InWindow(NewTrigger._doEtaHighCut, NewTrigger._doEtaLowCut,
                             NewTrigger._doBothEtaCut, e1[k].eta,
                             NewTrigger._theEtaHigh, NewTrigger._theEtaLow)

(***************************************************************************)
(* Vocabulary of the properties of the MVTX pruners.                       *)
(***************************************************************************)
\* clusters of one sensor in adjacent strobes
AdjacentStrobe(c, d) ==
    c.sensor = d.sensor /\ (c.strobe = d.strobe + 1 \/ d.strobe = c.strobe + 1)

\* C28: with strict matching disabled process_event removes a cluster only
\* as one of a pair of clusters of the same sensor in adjacent strobes, the
\* hit keys of the removed one a subset of those of the one kept; a cluster
\* whose hit keys are not contained in those of any cluster of an adjacent
\* strobe is not removed.
C28_SubsetPruning ==
    (cpruner_call.ncalls > 0 /\ ~cpruner.m_use_strict_matching)
    => LET hits == cpruner_call.before
       IN  /\ \A c \in DOMAIN hits \ DOMAIN trkrclusters :
                \E pair \in cpruner_call.removed : pair[1] = c
           /\ \A pair \in cpruner_call.removed :
                /\ AdjacentStrobe(pair[1], pair[2])
                /\ hits[pair[1]] \subseteq hits[pair[2]]
           /\ \A c \in DOMAIN hits :
                (~\E d \in DOMAIN hits : AdjacentStrobe(c, d) /\ hits[c] \subseteq hits[d])
                    => c \in DOMAIN trkrclusters

\* the hit keys of a hitset
HitKeysOf(hitset) == {hit.hitkey : hit \in hitset}

\* C29: after process_event the container holds no MVTX hitset with a
\* non-zero strobe, and for every sensor that had one the hit keys of its
\* strobe-0 hitset are those of all its hitsets before the call, the hits
\* the strobe-0 hitset had are in it as they were, and every hit key is in
\* it once.
C29_HitPrunerConsolidates ==
    hpruner_call.ret = "EVENT_OK"
    => LET before == hpruner_call.before
           after == m_hits.hitsets
       IN  /\ \A key \in DOMAIN after : key.strobe = 0
           /\ \A strobed \in {key \in DOMAIN before : key.strobe # 0} :
                LET bare == [strobed EXCEPT !.strobe = 0]
                IN  /\ bare \in DOMAIN after
                    /\ HitKeysOf(after[bare])
                         = UNION {HitKeysOf(before[key]) :
                                    key \in {k \in DOMAIN before : k.sensor = bare.sensor}}
                    /\ bare \in DOMAIN before => before[bare] \subseteq after[bare]
                    /\ \A hit \in after[bare], other \in after[bare] :
                         hit.hitkey = other.hitkey => hit = other

\* a sensor whose strobes 0, 1 and 2 shared a hit key, with different
\* contents, and whose strobe 2 brought a hit key of its own
C29_Witness ==
    /\ hpruner_call.ret = "EVENT_OK"
    /\ hpruner_call.before
         = [key \in {HitSetKeys[1], HitSetKeys[2], HitSetKeys[3], HitSetKeys[5]} |->
              IF key.sensor = 1 THEN {[hitkey |-> 2, adc |-> 20]}
              ELSE IF key.strobe = 0 THEN {[hitkey |-> 1, adc |-> 10]}
              ELSE IF key.strobe = 1 THEN {[hitkey |-> 1, adc |-> 20]}
              ELSE {[hitkey |-> 1, adc |-> 20], [hitkey |-> 2, adc |-> 20]}]
    /\ m_hits.hitsets
         = [key \in {HitSetKeys[1], HitSetKeys[4]} |->
              IF key.sensor = 1 THEN {[hitkey |-> 2, adc |-> 20]}
              ELSE {[hitkey |-> 1, adc |-> 10], [hitkey |-> 2, adc |-> 20]}]

\* C30: for every track of an event and every configuration i of
\* m_pending, the residuals of the track are filled into the i-th triple
\* of histograms exactly when the track satisfies the charge,
\* cluster-count, phi, eta and pt selections of configuration i, whatever
\* the other configurations select.
C30_HistogramOfConfiguration ==
    qa_call.nevts > 0
    => \A k \in DOMAIN qa_call.track_map : \A i \in DOMAIN qa.m_pending :
         LET track == qa_call.track_map[k]
             cfg == qa.m_pending[i]
             satisfies ==
                 /\ cfg.charge > 0 => track.positive_charge
                 /\ cfg.charge < 0 => ~track.positive_charge
                 /\ selected(cfg, track)
         IN  ~track.null
             => \A fill \in fills(qa_call.nevts, track) :
                    fill \in qa.m_histograms[i] <=> satisfies

====
